---- MODULE Spec2Model ----
(***************************************************************************)
(* Gemini Heavy (src/index.tsx): the App component's submission pipeline.  *)
(* handleSubmit -> optional Search Gate (query proposal, confirmation or   *)
(* cancellation) -> executeGeneration (fast call, or history / search /    *)
(* N initial drafts / N refinements / synthesis / critique / resynthesis)  *)
(* -> fire-and-forget enrichment (memory extraction, suggestions).         *)
(*                                                                         *)
(* React state (useState) is one variable per hook, under the source's     *)
(* name.  A handler runs to its first await as one action; every await is  *)
(* a point where other events interleave.  A closure reads the values of   *)
(* the render in which it was created: executeGeneration keeps the         *)
(* settings and the conversation id of the render that called it (gen),    *)
(* handleSubmit keeps those of the submission across the proposal call     *)
(* (submitCtx).  Texts are sequences of one-character strings.             *)
(***************************************************************************)
EXTENDS Integers, Sequences, FiniteSets, TLC

VARIABLES
    conversations,            \* Conversation[]: <<[id, title, messages]>>, newest first
    currentConversationId,    \* id of the selected conversation
    input,                    \* the textarea's text
    isLoading,
    loadingTasks,             \* LoadingTask[]: <<[name, status]>>
    researchMode,             \* "offline" | "web" | "deep"
    generationDepth,          \* "fast" | "balanced" | "deep"
    isSelfCorrectionEnabled,
    isLongTermMemoryEnabled,
    longTermMemories,         \* string[]
    proactiveSuggestions,     \* string[]
    showSettings,
    showSearchConfirmation,
    searchConfirmationData,   \* <<>> (null) or <<[originalUserInput, searchQuery, run]>>
    submitCtx,                \* handleSubmit suspended at the proposal call
    gen,                      \* executeGeneration's closure and locals
    inflight,                 \* model calls issued and not yet settled
    log,                      \* ledger of the latest run: calls issued per kind, outcome
    nRuns,                    \* accepted submissions so far
    uiSteps                   \* clicks outside the submission pipeline so far

vars == <<conversations, currentConversationId, input, isLoading, loadingTasks,
          researchMode, generationDepth, isSelfCorrectionEnabled,
          isLongTermMemoryEnabled, longTermMemories, proactiveSuggestions,
          showSettings, showSearchConfirmation, searchConfirmationData,
          submitCtx, gen, inflight, log, nRuns, uiSteps>>

----------------------------------------------------------------------------
(* Bounds of the model *)

\* user actions in one behaviour: accepted submissions plus clicks outside the
\* submission pipeline (new chat, select, rename, settings)
MaxUserActions == 2
\* conversations in the list (handleNewChat is not taken beyond it)
MaxConversations == 2

----------------------------------------------------------------------------
(* Texts *)

Whitespace == {" ", "\n"}

RECURSIVE trimStart(_)
trimStart(s) ==
    IF s # <<>> /\ Head(s) \in Whitespace THEN trimStart(Tail(s)) ELSE s

RECURSIVE trimEnd(_)
trimEnd(s) ==
    IF s # <<>> /\ s[Len(s)] \in Whitespace
    THEN trimEnd(SubSeq(s, 1, Len(s) - 1)) ELSE s

\* String.prototype.trim
trim(s) == trimEnd(trimStart(s))

upperOf(c) ==
    CASE c = "p" -> "P" [] c = "e" -> "E" [] c = "r" -> "R" [] c = "f" -> "F"
      [] c = "c" -> "C" [] c = "t" -> "T" [] c = "i" -> "I" [] c = "x" -> "X"
      [] OTHER -> c

\* String.prototype.toUpperCase
toUpperCase(s) == [i \in 1..Len(s) |-> upperOf(s[i])]

PERFECT == <<"P", "E", "R", "F", "E", "C", "T">>

\* what the user can have in the textarea
InputTexts == { <<"h", "i">> }

\* texts a main-path model call can answer with (final answers)
ResponseTexts == { <<>>, <<"a">> }
\* what the second synthesis may answer
ResynthTexts == { <<>>, <<"b">> }

\* text of a search, initial-draft or refinement answer
DraftText == <<"d">>

\* texts the critique call can answer with
CritiqueTexts ==
    { PERFECT,
      <<" ", "p", "e", "r", "f", "e", "c", "t", "\n">>,
      <<"P", "E", "R", "F", "E", "C", "T", "!">>,
      <<"f", "i", "x">> }

\* the proposal call's answers (JSON mode): malformed JSON, or {searchQuery, questions}
ProposedQuery == <<"s", "q">>
ProposalResponses == { [ok |-> FALSE, searchQuery |-> <<>>],
                       [ok |-> TRUE,  searchQuery |-> ProposedQuery] }

\* what the user can leave in the confirmation modal's query field
EditedQueries == { ProposedQuery, <<" ", "e", "d", " ">>, <<" ">> }

\* the memory-extraction call's answers: 11 characters, and 10 once trimmed
MemoryTexts == { <<"l", "i", "k", "e", "s", " ", "r", "u", "s", "t", "!">>,
                 <<" ", "l", "i", "k", "e", "s", " ", "r", "u", "s", "t">> }

\* the suggestion call's answers (JSON mode): malformed, or an array of strings
SuggestionResponses ==
    { [ok |-> FALSE, value |-> <<>>],
      [ok |-> TRUE,  value |-> <<>>],
      [ok |-> TRUE,  value |-> << <<"o", "k">>, <<"o", "k">>, <<"o", "k">>, <<"o", "k">> >>] }

\* what a rejected call throws: an Error with its message's words, or another value
Errors == { [isError |-> TRUE,  message |-> <<"Deadline", "exceeded">>] }

includes(message, word) == \E i \in 1..Len(message) : message[i] = word

lowerOf(w) == IF w = "Deadline" THEN "deadline" ELSE w

toLowerCase(message) == [i \in 1..Len(message) |-> lowerOf(message[i])]

GENERIC_MESSAGE == << "Desculpe, algo deu errado ao gerar a resposta." >>
API_MESSAGE     == << "Ha um problema com a configuracao da API." >>
TIMEOUT_MESSAGE == << "A solicitacao demorou muito e expirou." >>
SAFETY_MESSAGE  == << "A resposta foi bloqueada devido as configuracoes de seguranca." >>
GATE_MESSAGE    == << "Desculpe, houve um erro ao tentar refinar sua pesquisa." >>

\* a classification that tests the deadline before the API key
friendlyMessage_mutC34(error) ==
    IF ~error.isError THEN GENERIC_MESSAGE
    ELSE IF includes(toLowerCase(error.message), "deadline") THEN TIMEOUT_MESSAGE
    ELSE IF includes(error.message, "API key not valid") THEN API_MESSAGE
    ELSE IF includes(error.message, "SAFETY") THEN SAFETY_MESSAGE
    ELSE GENERIC_MESSAGE

\* executeGeneration's catch: the friendly text of a thrown value
friendlyMessage(error) ==
    IF ~error.isError THEN GENERIC_MESSAGE
    ELSE IF includes(error.message, "API key not valid") THEN API_MESSAGE
    ELSE IF includes(toLowerCase(error.message), "deadline") THEN TIMEOUT_MESSAGE
    ELSE IF includes(error.message, "SAFETY") THEN SAFETY_MESSAGE
    ELSE GENERIC_MESSAGE

----------------------------------------------------------------------------
(* Stage lists *)

HISTORY_PROCESSING_TASK == [name |-> "Processando historico...", status |-> "pending"]
BRAINSTORMING_TASK      == [name |-> "Brainstorming...",          status |-> "pending"]
REFINING_TASK           == [name |-> "Refinando rascunhos...",    status |-> "pending"]
SYNTHESIZING_TASK       == [name |-> "Sintetizando resposta...",  status |-> "pending"]
CRITIC_TASK             == [name |-> "Revisao critica...",        status |-> "pending"]
SEARCHING_TASK          == [name |-> "Pesquisando na web...",     status |-> "pending"]
FAST_TASK               == [name |-> "Gerando resposta...",       status |-> "pending"]

OFFLINE_TASKS ==
    << HISTORY_PROCESSING_TASK, BRAINSTORMING_TASK, REFINING_TASK,
       SYNTHESIZING_TASK, CRITIC_TASK >>
WEB_RESEARCH_TASKS ==
    << HISTORY_PROCESSING_TASK, SEARCHING_TASK, BRAINSTORMING_TASK, REFINING_TASK,
       SYNTHESIZING_TASK, CRITIC_TASK >>
DEEP_RESEARCH_TASKS ==
    << HISTORY_PROCESSING_TASK, SEARCHING_TASK, BRAINSTORMING_TASK, REFINING_TASK,
       SYNTHESIZING_TASK, CRITIC_TASK >>

\* a stage list taken from the offline template in every mode
tasksForRun_mutC38(depth, mode, selfCorrection) ==
    IF depth = "fast" THEN << FAST_TASK >>
    ELSE LET notCritic(t) == t.name # CRITIC_TASK.name
         IN  IF ~selfCorrection THEN SelectSeq(OFFLINE_TASKS, notCritic)
             ELSE OFFLINE_TASKS

\* a stage list that keeps the review stage whatever the setting
tasksForRun_mutC16(depth, mode, selfCorrection) ==
    IF depth = "fast" THEN << FAST_TASK >>
    ELSE CASE mode = "web"  -> WEB_RESEARCH_TASKS
           [] mode = "deep" -> DEEP_RESEARCH_TASKS
           [] OTHER         -> OFFLINE_TASKS

\* the stage list executeGeneration installs before its first step
tasksForRun(depth, mode, selfCorrection) ==
    IF depth = "fast" THEN << FAST_TASK >>
    ELSE LET currentTaskTemplate ==
                 CASE mode = "web"  -> WEB_RESEARCH_TASKS
                   [] mode = "deep" -> DEEP_RESEARCH_TASKS
                   [] OTHER         -> OFFLINE_TASKS
             notCritic(t) == t.name # CRITIC_TASK.name
         IN  IF ~selfCorrection THEN SelectSeq(currentTaskTemplate, notCritic)
             ELSE currentTaskTemplate

\* LoadingIndicator's progressPercentage for the list tasks, as the number
\* num/den, or NaN (0/0), or Infinity (a positive count over 0)
progressPercentage(tasks) ==
    LET completedCount ==
            Cardinality({ k \in 1..Len(tasks) : tasks[k].status = "completed" })
        divide(a, b) ==
            IF b # 0 THEN [kind |-> "number", num |-> a, den |-> b]
            ELSE IF a = 0 THEN [kind |-> "NaN", num |-> 0, den |-> 0]
            ELSE [kind |-> "Infinity", num |-> a, den |-> 0]
        times100(q) == IF q.kind = "number" THEN [q EXCEPT !.num = @ * 100] ELSE q
    IN  IF Len(tasks) > 0
        THEN times100(divide(completedCount, Len(tasks) - 1))
        ELSE [kind |-> "number", num |-> 0, den |-> 1]

\* an update that leaves the later stages as they were
updateTaskStatus_mutC15(prev, index, status) ==
    [i \in 1..Len(prev) |->
        IF i - 1 < index THEN [prev[i] EXCEPT !.status = "completed"]
        ELSE IF i - 1 = index THEN [prev[i] EXCEPT !.status = status]
        ELSE prev[i]]

\* an update with its two comparisons exchanged
updateTaskStatus_mutC14(prev, index, status) ==
    [i \in 1..Len(prev) |->
        IF i - 1 > index THEN [prev[i] EXCEPT !.status = "completed"]
        ELSE IF i - 1 = index THEN [prev[i] EXCEPT !.status = status]
        ELSE [prev[i] EXCEPT !.status = "pending"]]

\* updateTaskStatus(index, status) applied to the list prev; index counts from 0
updateTaskStatus(prev, index, status) ==
    [i \in 1..Len(prev) |->
        IF i - 1 < index THEN [prev[i] EXCEPT !.status = "completed"]
        ELSE IF i - 1 = index THEN [prev[i] EXCEPT !.status = status]
        ELSE [prev[i] EXCEPT !.status = "pending"]]

\* a fan-out three wide at the balanced depth
numAgents_mutC19(depth) == IF depth = "deep" THEN 4 ELSE 3

\* numAgents
numAgents(depth) == IF depth = "deep" THEN 4 ELSE 2

----------------------------------------------------------------------------
(* Conversations and messages *)

NEW_TITLE == << "Nova Conversa" >>

userMessage(text) ==
    [role |-> "user", text |-> text, isError |-> FALSE, generationDetails |-> <<>>]

\* a fast Message that carries (empty) generationDetails
fastModelMessage_mutC21(text) ==
    [role |-> "model", text |-> text, isError |-> FALSE,
     generationDetails |-> << [initial |-> <<>>, refined |-> <<>>] >>]

\* the fast branch's Message: no generationDetails
fastModelMessage(text) ==
    [role |-> "model", text |-> text, isError |-> FALSE, generationDetails |-> <<>>]

\* the multi-stage branch's Message
modelMessage(text, generationDetails) ==
    [role |-> "model", text |-> text, isError |-> FALSE,
     generationDetails |-> << generationDetails >>]

\* the catch block's Message without its error flag
errorMessage_mutC1(text) ==
    [role |-> "model", text |-> text, isError |-> FALSE, generationDetails |-> <<>>]

errorMessage(text) ==
    [role |-> "model", text |-> text, isError |-> TRUE, generationDetails |-> <<>>]

\* an update that writes the conversation back under the default title
updateConversationMessages_mutC32(prev, conversationId, message) ==
    [k \in 1..Len(prev) |->
        IF prev[k].id = conversationId
        THEN [prev[k] EXCEPT !.messages = Append(@, message), !.title = NEW_TITLE]
        ELSE prev[k]]

\* an update that puts the message before the current ones
updateConversationMessages_mutC29(prev, conversationId, message) ==
    [k \in 1..Len(prev) |->
        IF prev[k].id = conversationId
        THEN [prev[k] EXCEPT !.messages = << message >> \o @]
        ELSE prev[k]]

\* updateConversationMessages(conversationId, current => [...current, message])
updateConversationMessages(prev, conversationId, message) ==
    [k \in 1..Len(prev) |->
        IF prev[k].id = conversationId
        THEN [prev[k] EXCEPT !.messages = Append(@, message)]
        ELSE prev[k]]

\* conversations.find(c => c.id === id)?.messages ?? []
messagesOf(convs, id) ==
    IF \E k \in 1..Len(convs) : convs[k].id = id
    THEN convs[CHOOSE k \in 1..Len(convs) : convs[k].id = id].messages
    ELSE <<>>

\* userInput.trim().substring(0, 40) + (userInput.trim().length > 40 ? '...' : '')
newTitle(userInput) ==
    LET t == trim(userInput)
    IN  IF Len(t) > 40 THEN SubSeq(t, 1, 40) \o <<".", ".", ".">> ELSE t

\* handleSubmit's title update: only a conversation with no message yet is renamed
titleOnSubmit(prev, conversationId, userInput) ==
    [k \in 1..Len(prev) |->
        IF prev[k].id = conversationId /\ prev[k].messages = <<>>
        THEN [prev[k] EXCEPT !.title = newTitle(userInput)]
        ELSE prev[k]]

\* every message of every conversation, by position
Positions(convs) ==
    UNION { { <<k, j>> : j \in 1..Len(convs[k].messages) } : k \in 1..Len(convs) }

messageAt(convs, p) == convs[p[1]].messages[p[2]]

countUser(convs) ==
    Cardinality({ p \in Positions(convs) : messageAt(convs, p).role = "user" })
countAnswers(convs) ==
    Cardinality({ p \in Positions(convs) :
                    messageAt(convs, p).role = "model" /\ ~messageAt(convs, p).isError })
countErrors(convs) ==
    Cardinality({ p \in Positions(convs) :
                    messageAt(convs, p).role = "model" /\ messageAt(convs, p).isError })

----------------------------------------------------------------------------
(* Model calls *)

MainPathKinds == { "fast", "search", "initial", "refine", "synth", "critique", "resynth" }
Kinds == MainPathKinds \cup { "proposal", "memory", "suggest" }

\* one ai.models.generateContent call in flight
Call(run, kind, i, contents) ==
    [run |-> run, kind |-> kind, i |-> i, contents |-> contents]

\* the ledger of a run that starts in the conversation list convs
newLog(run, convs) ==
    [run      |-> run,
     outcome  |-> "running",
     issued   |-> [k \in Kinds |-> 0],
     before   |-> [user |-> countUser(convs), answers |-> countAnswers(convs),
                   errors |-> countErrors(convs)]]

logIssued(l, calls) ==
    [l EXCEPT !.issued = [k \in Kinds |->
        @[k] + Cardinality({ c \in calls : c.kind = k /\ c.run = l.run })]]

\* executeGeneration's locals when no run has started yet
idleGen ==
    [pc |-> "idle", run |-> 0, currentConversationId |-> 0, userInput |-> <<>>,
     confirmedSearchQuery |-> <<>>, finalInputWithContext |-> <<>>,
     researchMode |-> "offline", generationDepth |-> "fast",
     isSelfCorrectionEnabled |-> FALSE, isLongTermMemoryEnabled |-> FALSE,
     taskIndex |-> 0, results |-> <<>>,
     generationDetails |-> [initial |-> <<>>, refined |-> <<>>],
     finalResponse |-> <<>>, finalResponseText |-> <<>>]

idleSubmit == [pc |-> "idle", run |-> 0, currentConversationId |-> 0, userInput |-> <<>>]

Init ==
    /\ conversations = << [id |-> 1, title |-> NEW_TITLE, messages |-> <<>>] >>
    /\ currentConversationId = 1
    /\ input = <<>>
    /\ isLoading = FALSE
    /\ loadingTasks = <<>>
    /\ researchMode \in {"offline", "web", "deep"}
    /\ generationDepth \in {"fast", "balanced", "deep"}
    /\ isSelfCorrectionEnabled \in BOOLEAN
    /\ isLongTermMemoryEnabled \in BOOLEAN
    /\ longTermMemories = <<>>
    /\ proactiveSuggestions = <<>>
    /\ showSettings \in BOOLEAN
    /\ showSearchConfirmation = FALSE
    /\ searchConfirmationData = <<>>
    /\ submitCtx = idleSubmit
    /\ gen = idleGen
    /\ inflight = {}
    /\ log = [newLog(0, <<>>) EXCEPT !.outcome = "none"]
    /\ nRuns = 0
    /\ uiSteps = 0

\* a setter that never clears the flag
setIsLoading_mutC12(value) == isLoading' = TRUE

\* a setter that never raises the flag
setIsLoading_mutC3(value) == isLoading' = FALSE

\* the setter of the isLoading state
setIsLoading(value) == isLoading' = value

----------------------------------------------------------------------------
(* executeGeneration *)

RECURSIVE join(_, _)
\* Array.prototype.join
join(list, sep) ==
    IF list = <<>> THEN <<>>
    ELSE IF Len(list) = 1 THEN list[1]
    ELSE list[1] \o sep \o join(Tail(list), sep)

\* a memory block built whatever the memory setting
contextPrefix_mutC40(ltmEnabled, memories) ==
    IF Len(memories) > 0
    THEN << "--- Contexto da Memoria de Longo Prazo ---\n- " >>
         \o join(memories, << "\n- " >>)
         \o << "\n--- Fim do Contexto ---\n\n" >>
    ELSE <<>>

\* contextPrefix: the memory block put before the user's input
contextPrefix(ltmEnabled, memories) ==
    IF ltmEnabled /\ Len(memories) > 0
    THEN << "--- Contexto da Memoria de Longo Prazo ---\n- " >>
         \o join(memories, << "\n- " >>)
         \o << "\n--- Fim do Contexto ---\n\n" >>
    ELSE <<>>

\* queryForSearch = confirmedSearchQuery || finalInputWithContext
queryForSearch(confirmedSearchQuery, finalInputWithContext) ==
    IF confirmedSearchQuery # <<>> /\ confirmedSearchQuery[1] # <<>>
    THEN confirmedSearchQuery[1]
    ELSE finalInputWithContext

\* the PERFECT test without trim()
isPerfect_mutC5(critiqueText) == toUpperCase(critiqueText) = PERFECT

\* critiqueResponse.text.trim().toUpperCase() === 'PERFECT'
isPerfect(critiqueText) == toUpperCase(trim(critiqueText)) = PERFECT

\* a catch block that keeps finalResponseText
catchFinalResponseText_mutC9(finalResponseText) == finalResponseText

\* the text the catch block leaves in finalResponseText
catchFinalResponseText(finalResponseText) == <<>>

\* a run that keeps handling its calls' settlements after it has ended
Live_mutC39(c) == c.run = gen.run

\* a call whose settlement the suspended executeGeneration is awaiting
Live(c) == c.run = gen.run /\ gen.pc = c.kind

\* a fan-out that awaits its first call only
stepIndices_mutC4(kind, depth) ==
    IF kind \in {"initial", "refine"} THEN {1} ELSE {0}

\* the indices of a step's calls
stepIndices(kind, depth) ==
    IF kind \in {"initial", "refine"} THEN 1..numAgents(depth) ELSE {0}

\* a fan-out with one call more than numAgents
initialCalls_mutC20(run, depth) ==
    { Call(run, "initial", i, <<>>) : i \in 1..(numAgents(depth) + 1) }

\* the calls Promise.all issues for the initial drafts
initialCalls(run, depth) ==
    { Call(run, "initial", i, <<>>) : i \in 1..numAgents(depth) }

\* the calls issued for the refinements: one per initial response
refineCalls(run, initialResponses) ==
    { Call(run, "refine", i, initialResponses[i]) : i \in 1..Len(initialResponses) }

\* a finally block without the test of finalResponseText
enrichmentCalls_mutC10(run, ltmEnabled, finalResponseText) ==
    (IF ltmEnabled THEN { Call(run, "memory", 0, finalResponseText) } ELSE {})
    \cup { Call(run, "suggest", 0, finalResponseText) }

\* the fire-and-forget calls of the finally block
enrichmentCalls(run, ltmEnabled, finalResponseText) ==
    IF finalResponseText # <<>>
    THEN (IF ltmEnabled THEN { Call(run, "memory", 0, finalResponseText) } ELSE {})
         \cup { Call(run, "suggest", 0, finalResponseText) }
    ELSE {}

\* executeGeneration from its call to its first await, in the render that calls it
executeGeneration(userInput, confirmedSearchQuery, run, baseInflight, baseLog) ==
    LET finalInputWithContext ==
            contextPrefix(isLongTermMemoryEnabled, longTermMemories) \o userInput
        tasks == tasksForRun(generationDepth, researchMode, isSelfCorrectionEnabled)
        g == [idleGen EXCEPT
                !.run = run,
                !.currentConversationId = currentConversationId,
                !.userInput = userInput,
                !.confirmedSearchQuery = confirmedSearchQuery,
                !.finalInputWithContext = finalInputWithContext,
                !.researchMode = researchMode,
                !.generationDepth = generationDepth,
                !.isSelfCorrectionEnabled = isSelfCorrectionEnabled,
                !.isLongTermMemoryEnabled = isLongTermMemoryEnabled]
        fastCall == { Call(run, "fast", 0, finalInputWithContext) }
    IN  /\ loadingTasks' = updateTaskStatus(tasks, 0, "active")
        /\ IF generationDepth = "fast"
           THEN /\ gen' = [g EXCEPT !.pc = "fast"]
                /\ inflight' = baseInflight \cup fastCall
                /\ log' = logIssued(baseLog, fastCall)
           ELSE /\ gen' = [g EXCEPT !.pc = "history"]
                /\ inflight' = baseInflight
                /\ log' = baseLog

\* a finally block that leaves the loading state set
finally_mutC33(msg, finalResponseText, outcome, baseInflight) ==
    LET calls == enrichmentCalls(gen.run, gen.isLongTermMemoryEnabled, finalResponseText)
    IN  /\ conversations' =
               updateConversationMessages(conversations, gen.currentConversationId, msg)
        /\ UNCHANGED isLoading
        /\ inflight' = baseInflight \cup calls
        /\ log' = logIssued([log EXCEPT !.outcome = outcome], calls)
        /\ gen' = [idleGen EXCEPT !.pc = outcome, !.run = gen.run]

\* the finally block, after the message msg was appended
finally(msg, finalResponseText, outcome, baseInflight) ==
    LET calls == enrichmentCalls(gen.run, gen.isLongTermMemoryEnabled, finalResponseText)
    IN  /\ conversations' =
               updateConversationMessages(conversations, gen.currentConversationId, msg)
        /\ setIsLoading(FALSE)
        /\ inflight' = baseInflight \cup calls
        /\ log' = logIssued([log EXCEPT !.outcome = outcome], calls)
        /\ gen' = [idleGen EXCEPT !.pc = outcome, !.run = gen.run]

\* runTask's start for step kind at index taskIndex, after the previous step
\* was marked completed: the stage becomes active and the calls are issued
startStep(kind, taskIndex, calls, g) ==
    /\ loadingTasks' =
           updateTaskStatus(updateTaskStatus(loadingTasks, taskIndex - 1, "completed"),
                            taskIndex, "active")
    /\ gen' = [g EXCEPT !.pc = kind, !.taskIndex = taskIndex, !.results = <<>>]
    /\ inflight' = inflight \cup calls
    /\ log' = logIssued(log, calls)
    /\ UNCHANGED <<conversations, isLoading>>

\* the array Promise.all resolves with: the results at hand, in index order
responsesOf(g) ==
    LET D == DOMAIN g.results
        nth(j) == CHOOSE i \in D : Cardinality({ k \in D : k < i }) = j - 1
    IN  [j \in 1..Cardinality(D) |-> g.results[nth(j)]]

\* a join that proceeds on the first result
allResolved_mutC2(kind) ==
    /\ gen.pc = kind
    /\ DOMAIN gen.results # {}

allResolved(kind) ==
    /\ gen.pc = kind
    /\ \A i \in stepIndices(kind, gen.generationDepth) : i \in DOMAIN gen.results

appUnchanged ==
    UNCHANGED <<currentConversationId, input, researchMode, generationDepth,
                isSelfCorrectionEnabled, isLongTermMemoryEnabled, longTermMemories,
                proactiveSuggestions, showSettings, showSearchConfirmation,
                searchConfirmationData, submitCtx, nRuns, uiSteps>>

\* the history placeholder (100 ms timer, then the display floor) has elapsed
HistoryDone ==
    /\ gen.pc = "history"
    /\ IF gen.researchMode \in {"web", "deep"}
       THEN startStep("search", 1,
                { Call(gen.run, "search", 0,
                       queryForSearch(gen.confirmedSearchQuery, gen.finalInputWithContext)) },
                gen)
       ELSE startStep("initial", 1, initialCalls(gen.run, gen.generationDepth), gen)
    /\ appUnchanged

\* one call of a runTask step resolves; the step waits for the others
StepCallResolves(c, text) ==
    /\ c \in inflight
    /\ Live(c)
    /\ c.kind \in {"search", "initial", "refine", "synth", "critique"}
    /\ text \in (CASE c.kind = "synth" -> ResponseTexts
                   [] c.kind = "critique" -> CritiqueTexts
                   [] OTHER -> {DraftText})
    /\ gen' = [gen EXCEPT !.results = (c.i :> text) @@ @]
    /\ inflight' = inflight \ {c}
    /\ UNCHANGED <<conversations, isLoading, loadingTasks, log>>
    /\ appUnchanged

SearchDone ==
    /\ allResolved("search")
    /\ startStep("initial", gen.taskIndex + 1, initialCalls(gen.run, gen.generationDepth), gen)
    /\ appUnchanged

InitialDone ==
    /\ allResolved("initial")
    /\ LET initialResponses == responsesOf(gen)
       IN  startStep("refine", gen.taskIndex + 1, refineCalls(gen.run, initialResponses),
                     [gen EXCEPT !.generationDetails.initial = initialResponses])
    /\ appUnchanged

RefineDone ==
    /\ allResolved("refine")
    /\ startStep("synth", gen.taskIndex + 1, { Call(gen.run, "synth", 0, <<>>) },
                 [gen EXCEPT !.generationDetails.refined = responsesOf(gen)])
    /\ appUnchanged

\* the multi-stage branch's end: the Message is appended, then the finally block
finish(finalResponseText) ==
    /\ loadingTasks' = updateTaskStatus(loadingTasks, gen.taskIndex, "completed")
    /\ finally(modelMessage(finalResponseText, gen.generationDetails),
               finalResponseText, "answered", inflight)

SynthDone ==
    /\ allResolved("synth")
    /\ IF gen.isSelfCorrectionEnabled
       THEN startStep("critique", gen.taskIndex + 1, { Call(gen.run, "critique", 0, gen.results[0]) },
                      [gen EXCEPT !.finalResponse = gen.results[0],
                                  !.finalResponseText = gen.results[0]])
       ELSE finish(gen.results[0])
    /\ appUnchanged

CritiqueDone ==
    /\ allResolved("critique")
    /\ IF ~isPerfect(gen.results[0])
       THEN LET calls == { Call(gen.run, "resynth", 0, <<>>) }
            IN  /\ loadingTasks' = updateTaskStatus(loadingTasks, gen.taskIndex, "completed")
                /\ gen' = [gen EXCEPT !.pc = "resynth", !.results = <<>>]
                /\ inflight' = inflight \cup calls
                /\ log' = logIssued(log, calls)
                /\ UNCHANGED <<conversations, isLoading>>
       ELSE /\ loadingTasks' = updateTaskStatus(loadingTasks, gen.taskIndex, "completed")
            /\ finally(modelMessage(gen.finalResponseText, gen.generationDetails),
                       gen.finalResponseText, "answered", inflight)
    /\ appUnchanged

\* the second synthesis resolves: its text is the final text
ResynthResolves(c, text) ==
    /\ c \in inflight
    /\ Live(c)
    /\ c.kind = "resynth"
    /\ text \in ResynthTexts
    /\ loadingTasks' = updateTaskStatus(loadingTasks, gen.taskIndex, "completed")
    /\ finally(modelMessage(text, gen.generationDetails), text, "answered",
               inflight \ {c})
    /\ appUnchanged

\* the fast branch's only call resolves
FastResolves(c, text) ==
    /\ c \in inflight
    /\ Live(c)
    /\ c.kind = "fast"
    /\ text \in ResponseTexts
    /\ loadingTasks' = updateTaskStatus(loadingTasks, 0, "completed")
    /\ finally(fastModelMessage(text), text, "answered", inflight \ {c})
    /\ appUnchanged

\* a catch block that issues the rejected call again
MainCallRejects_mutC28(c, error) ==
    /\ c \in inflight
    /\ Live(c)
    /\ c.kind \in MainPathKinds
    /\ error \in Errors
    /\ log' = logIssued(log, {c})
    /\ UNCHANGED <<conversations, isLoading, loadingTasks, gen, inflight>>
    /\ appUnchanged

\* a call the run is awaiting rejects: the catch block, then the finally block
MainCallRejects(c, error) ==
    /\ c \in inflight
    /\ Live(c)
    /\ c.kind \in MainPathKinds
    /\ error \in Errors
    /\ finally(errorMessage(friendlyMessage(error)),
               catchFinalResponseText(gen.finalResponseText), "failed", inflight \ {c})
    /\ UNCHANGED loadingTasks
    /\ appUnchanged

\* a call of a fan-out whose run already failed settles: nobody awaits it
OrphanSettles(c) ==
    /\ c \in inflight
    /\ c.kind \in MainPathKinds
    /\ ~Live(c)
    /\ inflight' = inflight \ {c}
    /\ UNCHANGED <<conversations, isLoading, loadingTasks, gen, log>>
    /\ appUnchanged

----------------------------------------------------------------------------
(* handleSubmit and the Search Gate *)

\* handleSubmit's second guard: the submission is dropped
submitBlocked == currentConversationId = 0 \/ isLoading

\* a gate that forgets the depth
searchGateEngaged_mutC6(mode, depth) == mode = "web"

\* whether handleSubmit sends the submission through the Search Gate
searchGateEngaged(mode, depth) == mode = "web" /\ depth # "fast"

\* handleSubmit(event, overrideInput) with inputToUse = overrideInput ?? input
handleSubmit(inputToUse) ==
    IF trim(inputToUse) = <<>> \/ submitBlocked
    THEN UNCHANGED vars
    ELSE LET userInput == inputToUse
             run == nRuns + 1
             appended ==
                 updateConversationMessages(
                     titleOnSubmit(conversations, currentConversationId, userInput),
                     currentConversationId, userMessage(userInput))
             proposal == { Call(run, "proposal", 0, userInput) }
         IN  /\ nRuns + uiSteps < MaxUserActions
             /\ nRuns' = run
             /\ proactiveSuggestions' = <<>>
             /\ conversations' = appended
             /\ input' = <<>>
             /\ setIsLoading(TRUE)
             /\ IF searchGateEngaged(researchMode, generationDepth)
                THEN /\ submitCtx' = [pc |-> "proposal", run |-> run,
                                      currentConversationId |-> currentConversationId,
                                      userInput |-> userInput]
                     /\ inflight' = inflight \cup proposal
                     /\ log' = logIssued(newLog(run, conversations), proposal)
                     /\ UNCHANGED <<gen, loadingTasks>>
                ELSE /\ executeGeneration(userInput, <<>>, run, inflight,
                                          newLog(run, conversations))
                     /\ UNCHANGED submitCtx
             /\ UNCHANGED <<currentConversationId, researchMode, generationDepth,
                            isSelfCorrectionEnabled, isLongTermMemoryEnabled,
                            longTermMemories, showSettings, showSearchConfirmation,
                            searchConfirmationData, uiSteps>>

\* the form's submit event, or Enter in the textarea
HandleSubmit == handleSubmit(input)

\* a click on a proactive suggestion (shown when idle under a non-empty conversation)
HandleSuggestionClick(k) ==
    /\ ~isLoading
    /\ messagesOf(conversations, currentConversationId) # <<>>
    /\ k \in 1..Len(proactiveSuggestions)
    /\ handleSubmit(proactiveSuggestions[k])

\* a gate catch that leaves the loading state set
gateFails_mutC27(c) ==
    /\ conversations' = updateConversationMessages(conversations,
                            submitCtx.currentConversationId, errorMessage(GATE_MESSAGE))
    /\ submitCtx' = idleSubmit
    /\ inflight' = inflight \ {c}
    /\ log' = [log EXCEPT !.outcome = "gateFailed"]
    /\ UNCHANGED <<isLoading, showSearchConfirmation, searchConfirmationData>>

\* the catch of the Search Gate: a rejected proposal call, or malformed JSON
gateFails(c) ==
    /\ conversations' = updateConversationMessages(conversations,
                            submitCtx.currentConversationId, errorMessage(GATE_MESSAGE))
    /\ setIsLoading(FALSE)
    /\ submitCtx' = idleSubmit
    /\ inflight' = inflight \ {c}
    /\ log' = [log EXCEPT !.outcome = "gateFailed"]
    /\ UNCHANGED <<showSearchConfirmation, searchConfirmationData>>

gateUnchanged ==
    UNCHANGED <<currentConversationId, input, loadingTasks, researchMode,
                generationDepth, isSelfCorrectionEnabled, isLongTermMemoryEnabled,
                longTermMemories, proactiveSuggestions, showSettings, gen, nRuns,
                uiSteps>>

ProposalResolves(c, response) ==
    /\ c \in inflight
    /\ c.kind = "proposal"
    /\ submitCtx.pc = "proposal"
    /\ response \in ProposalResponses
    /\ IF response.ok
       THEN /\ searchConfirmationData' =
                   << [originalUserInput |-> submitCtx.userInput,
                       searchQuery |-> response.searchQuery] >>
            /\ showSearchConfirmation' = TRUE
            /\ submitCtx' = idleSubmit
            /\ inflight' = inflight \ {c}
            /\ UNCHANGED <<conversations, isLoading, log>>
       ELSE gateFails(c)
    /\ gateUnchanged

ProposalRejects(c) ==
    /\ c \in inflight
    /\ c.kind = "proposal"
    /\ submitCtx.pc = "proposal"
    /\ gateFails(c)
    /\ gateUnchanged

\* the confirmation modal is rendered
modalOpen == showSearchConfirmation /\ searchConfirmationData # <<>>

\* handleSearchConfirmation(confirmedQuery)
handleSearchConfirmation(confirmedQuery) ==
    /\ searchConfirmationData # <<>>
    /\ showSearchConfirmation' = FALSE
    /\ executeGeneration(searchConfirmationData[1].originalUserInput,
                         << confirmedQuery >>, log.run, inflight, log)
    /\ searchConfirmationData' = <<>>
    /\ UNCHANGED <<conversations, currentConversationId, input, isLoading,
                   researchMode, generationDepth, isSelfCorrectionEnabled,
                   isLongTermMemoryEnabled, longTermMemories, proactiveSuggestions,
                   showSettings, submitCtx, nRuns, uiSteps>>

\* SearchConfirmationModal's handleConfirm with the query field holding editedQuery
HandleConfirm(editedQuery) ==
    /\ modalOpen
    /\ editedQuery \in EditedQueries
    /\ IF trim(editedQuery) # <<>>
       THEN handleSearchConfirmation(trim(editedQuery))
       ELSE UNCHANGED vars

\* a cancel that hides the modal and keeps its data
HandleSearchCancel_mutC31 ==
    /\ modalOpen
    /\ showSearchConfirmation' = FALSE
    /\ setIsLoading(FALSE)
    /\ log' = [log EXCEPT !.outcome = "cancelled"]
    /\ UNCHANGED <<conversations, currentConversationId, input, loadingTasks,
                   researchMode, generationDepth, isSelfCorrectionEnabled,
                   isLongTermMemoryEnabled, longTermMemories, proactiveSuggestions,
                   showSettings, searchConfirmationData, submitCtx, gen, inflight,
                   nRuns, uiSteps>>

HandleSearchCancel ==
    /\ modalOpen
    /\ showSearchConfirmation' = FALSE
    /\ searchConfirmationData' = <<>>
    /\ setIsLoading(FALSE)
    /\ log' = [log EXCEPT !.outcome = "cancelled"]
    /\ UNCHANGED <<conversations, currentConversationId, input, loadingTasks,
                   researchMode, generationDepth, isSelfCorrectionEnabled,
                   isLongTermMemoryEnabled, longTermMemories, proactiveSuggestions,
                   showSettings, submitCtx, gen, inflight, nRuns, uiSteps>>

----------------------------------------------------------------------------
(* Enrichment *)

MAX_MEMORIES == 20

\* an updater that does not filter the existing copy out
storeMemory_mutC23(prev, newMemory) ==
    LET updatedMemories == << newMemory >> \o prev
    IN  SubSeq(updatedMemories, 1,
               IF Len(updatedMemories) < MAX_MEMORIES THEN Len(updatedMemories)
               ELSE MAX_MEMORIES)

\* the updater generateAndStoreMemory passes to setLongTermMemories
storeMemory(prev, newMemory) ==
    LET notNew(m) == m # newMemory
        updatedMemories == << newMemory >> \o SelectSeq(prev, notNew)
    IN  SubSeq(updatedMemories, 1,
               IF Len(updatedMemories) < MAX_MEMORIES THEN Len(updatedMemories)
               ELSE MAX_MEMORIES)

\* an admission test that lets ten characters in
admitted_mutC22(newMemory) == newMemory # <<>> /\ Len(newMemory) >= 10

\* generateAndStoreMemory's admission test
admitted(newMemory) == newMemory # <<>> /\ Len(newMemory) > 10

enrichmentUnchanged ==
    UNCHANGED <<conversations, currentConversationId, input, isLoading, loadingTasks,
                researchMode, generationDepth, isSelfCorrectionEnabled,
                isLongTermMemoryEnabled, showSettings, showSearchConfirmation,
                searchConfirmationData, submitCtx, gen, nRuns, uiSteps>>

MemoryResolves(c, text) ==
    /\ c \in inflight
    /\ c.kind = "memory"
    /\ text \in MemoryTexts
    /\ LET newMemory == trim(text)
       IN  longTermMemories' = IF admitted(newMemory)
                               THEN storeMemory(longTermMemories, newMemory)
                               ELSE longTermMemories
    /\ inflight' = inflight \ {c}
    /\ UNCHANGED <<proactiveSuggestions, log>>
    /\ enrichmentUnchanged

\* a memory failure reported like a main-path failure
MemoryRejects_mutC11(c) ==
    /\ c \in inflight
    /\ c.kind = "memory"
    /\ inflight' = inflight \ {c}
    /\ conversations' = updateConversationMessages(conversations, currentConversationId,
                                                   errorMessage(GENERIC_MESSAGE))
    /\ UNCHANGED <<longTermMemories, proactiveSuggestions, log>>
    /\ UNCHANGED <<currentConversationId, input, isLoading, loadingTasks,
                   researchMode, generationDepth, isSelfCorrectionEnabled,
                   isLongTermMemoryEnabled, showSettings, showSearchConfirmation,
                   searchConfirmationData, submitCtx, gen, nRuns, uiSteps>>

MemoryRejects(c) ==
    /\ c \in inflight
    /\ c.kind = "memory"
    /\ inflight' = inflight \ {c}
    /\ UNCHANGED <<longTermMemories, proactiveSuggestions, log>>
    /\ enrichmentUnchanged

\* suggestions.slice(0, 3)
slice3(suggestions) ==
    SubSeq(suggestions, 1, IF Len(suggestions) < 3 THEN Len(suggestions) ELSE 3)

SuggestResolves(c, response) ==
    /\ c \in inflight
    /\ c.kind = "suggest"
    /\ response \in SuggestionResponses
    /\ proactiveSuggestions' =
           IF response.ok /\ Len(response.value) > 0
           THEN slice3(response.value)
           ELSE proactiveSuggestions
    /\ inflight' = inflight \ {c}
    /\ UNCHANGED <<longTermMemories, log>>
    /\ enrichmentUnchanged

SuggestRejects(c) ==
    /\ c \in inflight
    /\ c.kind = "suggest"
    /\ inflight' = inflight \ {c}
    /\ UNCHANGED <<longTermMemories, proactiveSuggestions, log>>
    /\ enrichmentUnchanged

----------------------------------------------------------------------------
(* Other handlers of the App component.  While the confirmation modal is   *)
(* open its overlay covers the page: a click outside the dialog is onCancel *)
(* (HandleSearchCancel), so no control of the page is clicked then.         *)

runUnchanged ==
    UNCHANGED <<isLoading, loadingTasks, showSearchConfirmation,
                searchConfirmationData, submitCtx, gen, inflight, log, nRuns>>

\* a change handler that leaves the suggestions on display
handleInputChange_mutC26(value) ==
    /\ input' = value
    /\ UNCHANGED <<conversations, currentConversationId, researchMode, generationDepth,
                   isSelfCorrectionEnabled, isLongTermMemoryEnabled, longTermMemories,
                   proactiveSuggestions, showSettings, uiSteps>>
    /\ runUnchanged

handleInputChange(value) ==
    /\ input' = value
    /\ proactiveSuggestions' = <<>>
    /\ UNCHANGED <<conversations, currentConversationId, researchMode, generationDepth,
                   isSelfCorrectionEnabled, isLongTermMemoryEnabled, longTermMemories,
                   showSettings, uiSteps>>
    /\ runUnchanged

\* typing in the textarea (disabled while loading)
HandleInputChange(value) ==
    /\ ~isLoading
    /\ value \in InputTexts
    /\ value # input
    /\ handleInputChange(value)

HandleNewChat ==
    /\ ~modalOpen
    /\ Len(conversations) < MaxConversations
    /\ nRuns + uiSteps < MaxUserActions
    /\ uiSteps' = uiSteps + 1
    /\ LET newConversation ==
               [id |-> Len(conversations) + 1, title |-> NEW_TITLE, messages |-> <<>>]
       IN  /\ conversations' = << newConversation >> \o conversations
           /\ currentConversationId' = newConversation.id
    /\ input' = <<>>
    /\ showSettings' = FALSE
    /\ proactiveSuggestions' = <<>>
    /\ UNCHANGED <<researchMode, generationDepth, isSelfCorrectionEnabled,
                   isLongTermMemoryEnabled, longTermMemories>>
    /\ runUnchanged

\* titles typed into the title editor: a title, and a blank
EditingTitles == { << "t" >>, << " " >> }

\* handleRenameConversation(id, newTitle) applied to the list prev
handleRenameConversation(prev, id, editingTitle) ==
    LET trimmedTitle == trim(editingTitle)
    IN  IF trimmedTitle = <<>> THEN prev
        ELSE [k \in 1..Len(prev) |->
                 IF prev[k].id = id THEN [prev[k] EXCEPT !.title = trimmedTitle]
                 ELSE prev[k]]

\* the rename button of the selected conversation, a title typed, then Enter
\* or a click elsewhere (blur): the editor's own state is set and cleared
\* within the step
HandleRenameConversation(editingTitle) ==
    /\ ~modalOpen
    /\ currentConversationId # 0
    /\ editingTitle \in EditingTitles
    /\ nRuns + uiSteps < MaxUserActions
    /\ uiSteps' = uiSteps + 1
    /\ conversations' =
           handleRenameConversation(conversations, currentConversationId, editingTitle)
    /\ UNCHANGED <<currentConversationId, input, researchMode, generationDepth,
                   isSelfCorrectionEnabled, isLongTermMemoryEnabled, longTermMemories,
                   proactiveSuggestions, showSettings>>
    /\ runUnchanged

HandleSelectConversation(id) ==
    /\ ~modalOpen
    /\ \E k \in 1..Len(conversations) : conversations[k].id = id
    /\ id # currentConversationId
    /\ nRuns + uiSteps < MaxUserActions
    /\ uiSteps' = uiSteps + 1
    /\ IF isLoading
       THEN UNCHANGED <<currentConversationId, showSettings, proactiveSuggestions, input>>
       ELSE /\ currentConversationId' = id
            /\ showSettings' = FALSE
            /\ proactiveSuggestions' = <<>>
            /\ input' = <<>>
    /\ UNCHANGED <<conversations, researchMode, generationDepth,
                   isSelfCorrectionEnabled, isLongTermMemoryEnabled, longTermMemories>>
    /\ runUnchanged

settingsUnchanged ==
    UNCHANGED <<conversations, currentConversationId, input, longTermMemories,
                proactiveSuggestions>>

\* the settings button (disabled while loading)
ToggleSettings ==
    /\ ~isLoading
    /\ nRuns + uiSteps < MaxUserActions
    /\ uiSteps' = uiSteps + 1
    /\ showSettings' = ~showSettings
    /\ UNCHANGED <<researchMode, generationDepth, isSelfCorrectionEnabled,
                   isLongTermMemoryEnabled>>
    /\ settingsUnchanged /\ runUnchanged

\* the settings panel's close button
CloseSettings ==
    /\ ~modalOpen
    /\ showSettings
    /\ nRuns + uiSteps < MaxUserActions
    /\ uiSteps' = uiSteps + 1
    /\ showSettings' = FALSE
    /\ UNCHANGED <<researchMode, generationDepth, isSelfCorrectionEnabled,
                   isLongTermMemoryEnabled>>
    /\ settingsUnchanged /\ runUnchanged

\* the research-mode buttons of the settings panel (never disabled)
SetResearchMode(mode) ==
    /\ ~modalOpen
    /\ showSettings
    /\ nRuns + uiSteps < MaxUserActions
    /\ mode \in {"offline", "web", "deep"} \ {researchMode}
    /\ researchMode' = mode
    /\ uiSteps' = uiSteps + 1
    /\ UNCHANGED <<generationDepth, isSelfCorrectionEnabled, isLongTermMemoryEnabled,
                   showSettings>>
    /\ settingsUnchanged /\ runUnchanged

\* the depth buttons of the input area (disabled while loading)
SetGenerationDepth(depth) ==
    /\ ~isLoading
    /\ nRuns + uiSteps < MaxUserActions
    /\ depth \in {"fast", "balanced", "deep"} \ {generationDepth}
    /\ generationDepth' = depth
    /\ uiSteps' = uiSteps + 1
    /\ UNCHANGED <<researchMode, isSelfCorrectionEnabled, isLongTermMemoryEnabled,
                   showSettings>>
    /\ settingsUnchanged /\ runUnchanged

ToggleSelfCorrection ==
    /\ ~modalOpen
    /\ showSettings
    /\ nRuns + uiSteps < MaxUserActions
    /\ isSelfCorrectionEnabled' = ~isSelfCorrectionEnabled
    /\ uiSteps' = uiSteps + 1
    /\ UNCHANGED <<researchMode, generationDepth, isLongTermMemoryEnabled, showSettings>>
    /\ settingsUnchanged /\ runUnchanged

ToggleLongTermMemory ==
    /\ ~modalOpen
    /\ showSettings
    /\ nRuns + uiSteps < MaxUserActions
    /\ isLongTermMemoryEnabled' = ~isLongTermMemoryEnabled
    /\ uiSteps' = uiSteps + 1
    /\ UNCHANGED <<researchMode, generationDepth, isSelfCorrectionEnabled, showSettings>>
    /\ settingsUnchanged /\ runUnchanged

----------------------------------------------------------------------------
(* The specification *)

Next ==
    \/ HandleSubmit
    \/ \E k \in 1..3 : HandleSuggestionClick(k)
    \/ \E c \in inflight : \E r \in ProposalResponses : ProposalResolves(c, r)
    \/ \E c \in inflight : ProposalRejects(c)
    \/ \E q \in EditedQueries : HandleConfirm(q)
    \/ HandleSearchCancel
    \/ HistoryDone
    \/ \E c \in inflight : \E t \in ResponseTexts \cup CritiqueTexts \cup {DraftText} :
           StepCallResolves(c, t)
    \/ SearchDone
    \/ InitialDone
    \/ RefineDone
    \/ SynthDone
    \/ CritiqueDone
    \/ \E c \in inflight : \E t \in ResynthTexts : ResynthResolves(c, t)
    \/ \E c \in inflight : \E t \in ResponseTexts : FastResolves(c, t)
    \/ \E c \in inflight : \E e \in Errors : MainCallRejects(c, e)
    \/ \E c \in inflight : OrphanSettles(c)
    \/ \E c \in inflight : \E t \in MemoryTexts : MemoryResolves(c, t)
    \/ \E c \in inflight : MemoryRejects(c)
    \/ \E c \in inflight : \E r \in SuggestionResponses : SuggestResolves(c, r)
    \/ \E c \in inflight : SuggestRejects(c)
    \/ \E v \in InputTexts : HandleInputChange(v)
    \/ HandleNewChat
    \/ \E id \in 1..MaxConversations : HandleSelectConversation(id)
    \/ \E t \in EditingTitles : HandleRenameConversation(t)
    \/ ToggleSettings
    \/ CloseSettings
    \/ \E m \in {"offline", "web", "deep"} : SetResearchMode(m)
    \/ \E d \in {"fast", "balanced", "deep"} : SetGenerationDepth(d)
    \/ ToggleSelfCorrection
    \/ ToggleLongTermMemory

Spec == Init /\ [][Next]_vars

----------------------------------------------------------------------------
(* Properties *)

\* C1: when a call on the main path of a run rejects, the run ends with
\* exactly one error Message (role model, isError true) appended and with no
\* non-error model Message appended for it.
C1_RejectionAbortsRun ==
    log.outcome = "failed" =>
        /\ countErrors(conversations) = log.before.errors + 1
        /\ countAnswers(conversations) = log.before.answers

\* a deep or balanced run that failed after its synthesis call was issued
C1_Witness ==
    /\ log.outcome = "failed"
    /\ log.issued["synth"] = 1
    /\ countErrors(conversations) = 1

\* C2: the refinement calls are issued if and only if all N initial-draft
\* calls resolved: a step that issues them starts from the initial stage with
\* all N results at hand and no initial call in flight, issues N of them over
\* the N drafts, and the run leaves that stage in no other way.
C2_FanOutJoin ==
    [][ LET N == numAgents(gen.generationDepth)
        IN  /\ (log'.run = log.run /\ log'.issued["refine"] # log.issued["refine"]) =>
                  /\ gen.pc = "initial"
                  /\ DOMAIN gen.results = 1..N
                  /\ ~\E c \in inflight : c.run = gen.run /\ c.kind = "initial"
                  /\ log'.issued["refine"] = N
                  /\ Len(gen'.generationDetails.initial) = N
            /\ (gen.pc = "initial" /\ DOMAIN gen.results = 1..N /\ gen' # gen) =>
                  /\ gen'.pc = "refine"
                  /\ log'.issued["refine"] = N
            /\ (gen.pc = "initial" /\ log'.outcome = "failed") =>
                  /\ log'.issued["refine"] = 0
                  /\ gen'.generationDetails.initial = <<>>
      ]_vars

\* a deep run whose four refinement calls are out
C2_Witness ==
    /\ gen.pc = "refine"
    /\ log.issued["refine"] = 4
    /\ Cardinality({ c \in inflight : c.kind = "refine" }) = 4

\* C3: from the acceptance of a submission to the end of its run the
\* application is loading and no step accepts a submission: no user Message
\* is appended, no run is started, and every call issued belongs to the
\* active run.
C3_SingleActiveRun ==
    [][ log.outcome = "running" =>
            /\ isLoading
            /\ nRuns' = nRuns
            /\ log'.run = log.run
            /\ countUser(conversations') = countUser(conversations)
            /\ \A c \in inflight' \ inflight : c.run = log.run /\ c.kind # "proposal"
      ]_vars

\* a run is at its synthesis while the user may still act
C3_Witness ==
    /\ log.outcome = "running"
    /\ gen.pc = "synth"
    /\ nRuns + uiSteps < MaxUserActions

\* C4: the calls of a balanced or deep run are issued stage by stage, in the
\* order history, search (web and deep mode only), initial, refine, synth,
\* critique (self-correction only), resynth, and the calls of a stage are
\* issued only when every call of the stage before has resolved.
C4_StrictSequence ==
    [][ \A c \in inflight' \ inflight :
          c.kind \in MainPathKinds \ {"fast"} =>
            LET stepBefore ==
                    CASE c.kind = "search"   -> "history"
                      [] c.kind = "initial"  ->
                             IF gen'.researchMode \in {"web", "deep"} THEN "search"
                             ELSE "history"
                      [] c.kind = "refine"   -> "initial"
                      [] c.kind = "synth"    -> "refine"
                      [] c.kind = "critique" -> "synth"
                      [] c.kind = "resynth"  -> "critique"
                expected ==
                    IF stepBefore \in {"initial", "refine"}
                    THEN 1..numAgents(gen'.generationDepth)
                    ELSE {0}
            IN  /\ log'.outcome = "running"
                /\ c.run = gen'.run
                /\ stepBefore # "history" =>
                       /\ gen.pc = stepBefore
                       /\ gen.run = c.run
                       /\ DOMAIN gen.results = expected
                /\ stepBefore = "history" => gen.pc = "history" /\ gen.run = c.run
                /\ ~\E d \in inflight : d.run = c.run /\ d.kind \in MainPathKinds
                /\ c.kind = "search" => gen'.researchMode \in {"web", "deep"}
                /\ c.kind = "critique" => gen'.isSelfCorrectionEnabled
      ]_vars

\* a web or deep run with self-correction that went through every stage
C4_Witness ==
    /\ gen.pc = "resynth"
    /\ log.issued["search"] = 1
    /\ log.issued["refine"] = numAgents(gen.generationDepth)
    /\ log.issued["critique"] = 1

\* C5: when the critique, trimmed and uppercased, is exactly PERFECT, the run
\* ends with the first synthesis text as the Message text and without a
\* second synthesis call; for any other critique one second synthesis call is
\* issued and the Message text is what that call answers.
C5_SelfCorrection ==
    [][ LET appended == messagesOf(conversations', gen.currentConversationId)
            finalText == appended[Len(appended)].text
        IN  /\ (gen.pc = "critique" /\ 0 \in DOMAIN gen.results /\ gen' # gen) =>
                  IF toUpperCase(trim(gen.results[0])) = PERFECT
                  THEN /\ log'.outcome = "answered"
                       /\ log'.issued["resynth"] = 0
                       /\ finalText = gen.finalResponse
                  ELSE /\ log'.outcome = "running"
                       /\ log'.issued["resynth"] = 1
                       /\ gen'.pc = "resynth"
                       /\ conversations' = conversations
            /\ (gen.pc = "resynth" /\ log'.outcome = "answered") =>
                  /\ log'.issued["resynth"] = 1
                  /\ finalText \in ResynthTexts
      ]_vars

\* a run with a critique that ended without a second synthesis
C5_Witness ==
    /\ log.outcome = "answered"
    /\ log.issued["critique"] = 1
    /\ log.issued["resynth"] = 0

\* C6: an accepted submission goes through the Search Gate (a proposal call,
\* the orchestrator not started) exactly when the research mode is web and
\* the depth is not fast; otherwise the orchestrator starts at once and no
\* proposal call is issued.
C6_SearchGate ==
    [][ nRuns' = nRuns + 1 =>
          IF researchMode = "web" /\ generationDepth # "fast"
          THEN /\ log'.issued["proposal"] = 1
               /\ submitCtx'.pc = "proposal"
               /\ gen' = gen
               /\ \A c \in inflight' \ inflight : c.kind = "proposal"
          ELSE /\ log'.issued["proposal"] = 0
               /\ submitCtx' = submitCtx
               /\ gen'.pc \in {"fast", "history"}
               /\ gen'.run = nRuns'
               /\ ~\E c \in inflight' \ inflight : c.kind = "proposal"
      ]_vars

\* a submission waits at the Search Gate for its proposal
C6_Witness ==
    /\ submitCtx.pc = "proposal"
    /\ \E c \in inflight : c.kind = "proposal" /\ c.run = nRuns

\* C7: after the pending confirmation was cancelled the run has left no
\* trace: no Message of any role was appended for it, no orchestrator call
\* was issued, the confirmation is gone and the application is not loading.
C7_CancelIsSilentNoOp ==
    log.outcome = "cancelled" =>
        /\ countUser(conversations) = log.before.user
        /\ countErrors(conversations) = log.before.errors
        /\ countAnswers(conversations) = log.before.answers
        /\ \A k \in MainPathKinds : log.issued[k] = 0
        /\ searchConfirmationData = <<>>
        /\ ~showSearchConfirmation
        /\ ~isLoading

\* C8: a run resumed by a confirmation performs the search stage, and its
\* search call carries exactly the confirmed query; a search call of a run
\* that passed no gate carries the contextualized input.
C8_ConfirmedQueryIsSearched ==
    /\ (gen.confirmedSearchQuery # <<>> /\ gen.pc \notin {"idle", "history"}) =>
           log.issued["search"] = 1
    /\ \A c \in inflight :
           (c.kind = "search" /\ c.run = gen.run /\ gen.pc = "search") =>
               c.contents = IF gen.confirmedSearchQuery # <<>>
                            THEN gen.confirmedSearchQuery[1]
                            ELSE gen.finalInputWithContext

\* C9: a run that ended in an error has issued no memory call and no
\* suggestion call, whatever text it had produced before the rejection.
C9_NoEnrichmentAfterError ==
    log.outcome = "failed" =>
        /\ log.issued["memory"] = 0
        /\ log.issued["suggest"] = 0
        /\ ~\E c \in inflight : c.run = log.run /\ c.kind \in {"memory", "suggest"}

\* a run that failed at its second synthesis
C9_Witness ==
    /\ log.outcome = "failed"
    /\ log.issued["resynth"] = 1

\* C10: memory and suggestion calls are issued only by the step that ends a
\* run with a non-empty final text, over that text; a run that ends with an
\* empty final text issues neither.
C10_EnrichmentOnlyOnText ==
    [][ LET issued == { c \in inflight' \ inflight : c.kind \in {"memory", "suggest"} }
            appended == messagesOf(conversations', gen.currentConversationId)
            m == appended[Len(appended)]
        IN  /\ issued # {} =>
                  /\ log.outcome = "running"
                  /\ log'.outcome = "answered"
                  /\ ~m.isError
                  /\ m.text # <<>>
                  /\ \A c \in issued : c.contents = m.text /\ c.run = log.run
            /\ (log.outcome = "running" /\ log'.outcome = "answered" /\ m.text = <<>>) =>
                  issued = {}
      ]_vars

\* a run that answered with the empty text and issued no enrichment call
C10_Witness ==
    /\ log.outcome = "answered"
    /\ nRuns = 1
    /\ log.issued["suggest"] = 0
    /\ log.issued["memory"] = 0

\* the steps by which a started run proceeds: a timer elapses, a call the run
\* awaits settles, a stage is left
Progress ==
    \/ HistoryDone
    \/ \E c \in inflight : \E t \in ResponseTexts \cup CritiqueTexts \cup {DraftText} :
           StepCallResolves(c, t)
    \/ SearchDone
    \/ InitialDone
    \/ RefineDone
    \/ SynthDone
    \/ CritiqueDone
    \/ \E c \in inflight : \E t \in ResynthTexts : ResynthResolves(c, t)
    \/ \E c \in inflight : \E t \in ResponseTexts : FastResolves(c, t)
    \/ \E c \in inflight : \E e \in Errors : MainCallRejects(c, e)

\* every timer elapses and every call a run awaits settles
FairSpec == Spec /\ WF_vars(Progress)

\* C11: the step in which a memory call or a suggestion call settles, failure
\* included, appends no Message, leaves the loading state, the stage list and
\* the run alone, changes at most the list of its own operation (the memories
\* by one admitted memory in front, the suggestions to one to three entries),
\* and leaves the other enrichment call in flight.
C11_EnrichmentFailureSwallowed ==
    [][ \A c \in inflight \ inflight' :
          c.kind \in {"memory", "suggest"} =>
            /\ conversations' = conversations
            /\ isLoading' = isLoading
            /\ loadingTasks' = loadingTasks
            /\ gen' = gen
            /\ log' = log
            /\ inflight' = inflight \ {c}
            /\ c.kind = "memory" =>
                   /\ proactiveSuggestions' = proactiveSuggestions
                   /\ longTermMemories' # longTermMemories =>
                          Len(longTermMemories'[1]) > 10
            /\ c.kind = "suggest" =>
                   /\ longTermMemories' = longTermMemories
                   /\ proactiveSuggestions' # proactiveSuggestions =>
                          Len(proactiveSuggestions') \in 1..3
      ]_vars

\* the memory call of a run settled without effect and its suggestion call
\* took effect
C11_Witness ==
    /\ log.outcome = "answered"
    /\ log.issued["memory"] = 1
    /\ log.issued["suggest"] = 1
    /\ inflight = {}
    /\ longTermMemories = <<>>
    /\ proactiveSuggestions # <<>>

\* C12: a run that has started the orchestrator ends: an answer or an error
\* Message is appended for it and the loading state is cleared (no run starts
\* while one is active, so the outcome reached is that of the started run).
C12_StartedRunEnds ==
    (gen.pc \in {"history"} \cup MainPathKinds /\ log.run = gen.run /\ log.outcome = "running")
        ~> (log.outcome \in {"answered", "failed"} /\ ~isLoading)

\* a run is waiting for its second synthesis
C12_Witness ==
    /\ gen.pc = "resynth"
    /\ isLoading
    /\ \E c \in inflight : c.kind = "resynth" /\ c.run = gen.run

C14_StagesMoveForward ==
    [][ LET status(k) == loadingTasks[k].status
            shape(tasks) ==
                \A k \in 1..Len(tasks) : \A j \in 1..Len(tasks) :
                    k < j =>
                        /\ tasks[j].status = "completed" => tasks[k].status = "completed"
                        /\ tasks[j].status = "active" => tasks[k].status = "completed"
                        /\ tasks[k].status = "pending" => tasks[j].status = "pending"
        IN  /\ shape(loadingTasks) /\ shape(loadingTasks')
            /\ (gen.pc \in {"history"} \cup MainPathKinds /\ log'.run = log.run) =>
                  /\ Len(loadingTasks') = Len(loadingTasks)
                  /\ \A k \in 1..Len(loadingTasks) :
                         status(k) = "completed" => loadingTasks'[k].status = "completed"
                  /\ \A k \in 1..Len(loadingTasks) :
                         status(k) = "active" => loadingTasks'[k].status # "pending"
      ]_vars

\* a run with two completed stages, one active and the rest pending
C14_Witness ==
    /\ gen.pc = "initial"
    /\ Len(loadingTasks) = 6
    /\ loadingTasks[2].status = "completed"
    /\ loadingTasks[3].status = "active"
    /\ loadingTasks[4].status = "pending"

----------------------------------------------------------------------------
(* updateTaskStatus on its own: every stage list of a run under every       *)
(* assignment of statuses, advanced to every index                          *)

\* the stage lists executeGeneration can install
StageLists ==
    { tasksForRun(depth, mode, selfCorrection) :
        depth \in {"fast", "balanced", "deep"}, mode \in {"offline", "web", "deep"},
        selfCorrection \in BOOLEAN }

\* a stage list under every assignment of statuses
withStatuses(tasks) ==
    { [k \in 1..Len(tasks) |-> [tasks[k] EXCEPT !.status = st[k]]] :
        st \in [1..Len(tasks) -> {"pending", "active", "completed"}] }

InitAdvance ==
    /\ conversations = << [id |-> 1, title |-> NEW_TITLE, messages |-> <<>>] >>
    /\ currentConversationId = 1
    /\ input = <<>>
    /\ isLoading = TRUE
    /\ loadingTasks \in UNION { withStatuses(tasks) : tasks \in StageLists }
    /\ researchMode = "offline"
    /\ generationDepth = "deep"
    /\ isSelfCorrectionEnabled = TRUE
    /\ isLongTermMemoryEnabled = TRUE
    /\ longTermMemories = <<>>
    /\ proactiveSuggestions = <<>>
    /\ showSettings = FALSE
    /\ showSearchConfirmation = FALSE
    /\ searchConfirmationData = <<>>
    /\ submitCtx = idleSubmit
    /\ gen = idleGen
    /\ inflight = {}
    /\ log = [newLog(0, <<>>) EXCEPT !.outcome = "none"]
    /\ nRuns = 0
    /\ uiSteps = 0

\* updateTaskStatus(index, 'active'); gen.taskIndex keeps the index
Advance(index) ==
    /\ index \in 0..(Len(loadingTasks) - 1)
    /\ loadingTasks' = updateTaskStatus(loadingTasks, index, "active")
    /\ gen' = [gen EXCEPT !.pc = "advanced", !.taskIndex = index]
    /\ UNCHANGED <<conversations, currentConversationId, input, isLoading,
                   researchMode, generationDepth, isSelfCorrectionEnabled,
                   isLongTermMemoryEnabled, longTermMemories, proactiveSuggestions,
                   showSettings, showSearchConfirmation, searchConfirmationData,
                   submitCtx, inflight, log, nRuns, uiSteps>>

NextAdvance == \E index \in 0..5 : Advance(index)

AdvanceSpec == InitAdvance /\ [][NextAdvance]_vars

\* C15: after an advance to index i, whatever the statuses were before, every
\* stage before i is completed, stage i is active, every stage after i is
\* pending, and advancing to i again changes nothing.
C15_AdvanceIsCanonical ==
    gen.pc = "advanced" =>
        /\ \A k \in 1..Len(loadingTasks) :
               loadingTasks[k].status =
                   IF k - 1 < gen.taskIndex THEN "completed"
                   ELSE IF k - 1 = gen.taskIndex THEN "active"
                   ELSE "pending"
        /\ updateTaskStatus(loadingTasks, gen.taskIndex, "active") = loadingTasks

\* a six-stage list advanced to its third stage
C15_Witness ==
    /\ gen.pc = "advanced"
    /\ gen.taskIndex = 2
    /\ Len(loadingTasks) = 6

\* C16: for every research mode, depth and self-correction setting the stage
\* list built at the start of a run is the single stage of a fast run, or
\* else history, search (web and deep mode only), brainstorming, refining,
\* synthesizing, review (self-correction only), every stage pending; and while
\* the run is under way the names on display are that list, in that order.
C16_StageListOfRun ==
    LET expected(depth, mode, selfCorrection) ==
            IF depth = "fast" THEN << "Gerando resposta..." >>
            ELSE << "Processando historico..." >>
                 \o (IF mode \in {"web", "deep"} THEN << "Pesquisando na web..." >> ELSE <<>>)
                 \o << "Brainstorming...", "Refinando rascunhos...", "Sintetizando resposta..." >>
                 \o (IF selfCorrection THEN << "Revisao critica..." >> ELSE <<>>)
        names(tasks) == [k \in 1..Len(tasks) |-> tasks[k].name]
    IN  /\ \A depth \in {"fast", "balanced", "deep"}, mode \in {"offline", "web", "deep"},
             selfCorrection \in BOOLEAN :
               LET tasks == tasksForRun(depth, mode, selfCorrection)
               IN  /\ names(tasks) = expected(depth, mode, selfCorrection)
                   /\ \A k \in 1..Len(tasks) : tasks[k].status = "pending"
        /\ gen.pc \in {"history"} \cup MainPathKinds =>
               names(loadingTasks) =
                   expected(gen.generationDepth, gen.researchMode, gen.isSelfCorrectionEnabled)

\* a web-mode run without self-correction reached its refinement step
C16_Witness ==
    /\ gen.pc = "refine"
    /\ gen.researchMode = "web"
    /\ ~gen.isSelfCorrectionEnabled
    /\ Len(loadingTasks) = 5

\* C17: whenever the loading indicator is on display, the progress it shows
\* for a list of n stages with c completed is 0 when n <= 1 and c/(n-1)
\* otherwise (as a percentage: 100 times that), a number in every case.
C17_ProgressRatioDefined ==
    isLoading =>
        LET n == Len(loadingTasks)
            c == Cardinality({ k \in 1..n : loadingTasks[k].status = "completed" })
            p == progressPercentage(loadingTasks)
        IN  /\ p.kind = "number"
            /\ IF n <= 1 THEN p.num = 0
               ELSE p.num * (n - 1) = 100 * c * p.den

\* C18: while a balanced or deep run is under way and the indicator is on
\* display, the completed count is at most the stage count minus 1 and the
\* progress lies between 0 and 100 percent, the resynthesis call included.
C18_ProgressWithinUnit ==
    (isLoading /\ gen.pc \in ({"history"} \cup MainPathKinds) \ {"fast"}) =>
        LET n == Len(loadingTasks)
            c == Cardinality({ k \in 1..n : loadingTasks[k].status = "completed" })
            p == progressPercentage(loadingTasks)
        IN  /\ c <= n - 1
            /\ p.kind = "number"
            /\ 0 <= p.num
            /\ p.num <= 100 * p.den

\* C19: the fan-out is 2 wide at the balanced depth and 4 wide at the deep
\* depth: that many initial-draft calls are issued, then exactly one
\* refinement call per initial draft, carrying that draft; and every Message
\* with generationDetails has as many refined as initial texts, 2 or 4, the
\* width of the run that appended it.
C19_FanOutWidth ==
    /\ [](\A k \in 1..Len(conversations) :
            \A m \in 1..Len(conversations[k].messages) :
                LET details == conversations[k].messages[m].generationDetails
                IN  details # <<>> =>
                        /\ Len(details[1].initial) = Len(details[1].refined)
                        /\ Len(details[1].initial) \in {2, 4})
    /\ [][ LET N == IF gen.generationDepth = "deep" THEN 4 ELSE 2
               issuedNow(kind) == { c \in inflight' \ inflight : c.kind = kind }
               appended == messagesOf(conversations', gen.currentConversationId)
               details == appended[Len(appended)].generationDetails
           IN  /\ (gen.pc # "initial" /\ gen'.pc = "initial") =>
                     /\ Cardinality(issuedNow("initial")) = N
                     /\ log'.issued["initial"] = N
               /\ (gen.pc = "initial" /\ gen'.pc = "refine") =>
                     /\ \A i \in 1..N :
                            Cardinality({ c \in issuedNow("refine") :
                                            c.i = i /\ c.contents = gen.results[i] }) = 1
                     /\ Cardinality(issuedNow("refine")) = N
                     /\ log'.issued["refine"] = N
               /\ (gen.pc \in {"synth", "critique", "resynth"} /\ log'.outcome = "answered") =>
                     /\ details # <<>>
                     /\ Len(details[1].initial) = N
                     /\ Len(details[1].refined) = N
         ]_vars

\* a deep run's Message with four initial and four refined drafts
C19_Witness ==
    \E k \in 1..Len(conversations) :
        \E m \in 1..Len(conversations[k].messages) :
            LET details == conversations[k].messages[m].generationDetails
            IN  /\ details # <<>>
                /\ Len(details[1].initial) = 4
                /\ Len(details[1].refined) = 4

\* C20: a balanced or deep run that ends with its answer has issued one search
\* call exactly in web and deep mode, N initial-draft and N refinement calls,
\* one synthesis call, one critique call exactly when self-correction is on,
\* one second synthesis call exactly when the critique was not PERFECT, and no
\* other call of the main path; no run issues two critiques or two second
\* syntheses.
C20_CallsOfSuccessfulRun ==
    [][ LET N == IF gen.generationDepth = "deep" THEN 4 ELSE 2
            ends == /\ gen.pc \in {"synth", "critique", "resynth"}
                    /\ log'.outcome = "answered"
        IN  /\ ends =>
                  /\ log'.issued["fast"] = 0
                  /\ log'.issued["search"] =
                         (IF gen.researchMode \in {"web", "deep"} THEN 1 ELSE 0)
                  /\ log'.issued["initial"] = N
                  /\ log'.issued["refine"] = N
                  /\ log'.issued["synth"] = 1
                  /\ log'.issued["critique"] = (IF gen.isSelfCorrectionEnabled THEN 1 ELSE 0)
                  /\ log'.issued["resynth"] = (IF gen.pc = "resynth" THEN 1 ELSE 0)
                  /\ gen.pc = "critique" => toUpperCase(trim(gen.results[0])) = PERFECT
            /\ (gen.pc # "resynth" /\ gen'.pc = "resynth") =>
                  /\ gen.pc = "critique"
                  /\ gen.isSelfCorrectionEnabled
                  /\ toUpperCase(trim(gen.results[0])) # PERFECT
            /\ log'.issued["critique"] <= 1
            /\ log'.issued["resynth"] <= 1
      ]_vars

\* a deep run in deep research mode ended after its second synthesis
C20_Witness ==
    /\ log.outcome = "answered"
    /\ log.issued["search"] = 1
    /\ log.issued["initial"] = 4
    /\ log.issued["refine"] = 4
    /\ log.issued["critique"] = 1
    /\ log.issued["resynth"] = 1

\* C21: a submission at the fast depth starts the single call at once in every
\* research mode (no proposal call); a fast run that ends with its answer has
\* issued that one call and no other of the gate or the main path, and has
\* appended one model Message without generationDetails; generationDetails
\* are on the Message of every balanced or deep run that ends with its answer
\* and on no error Message and no user Message.
C21_FastRunIsOneCall ==
    /\ [](\A k \in 1..Len(conversations) :
            \A m \in 1..Len(conversations[k].messages) :
                LET message == conversations[k].messages[m]
                IN  message.generationDetails # <<>> =>
                        message.role = "model" /\ ~message.isError)
    /\ [][ LET previous == messagesOf(conversations, gen.currentConversationId)
               appended == messagesOf(conversations', gen.currentConversationId)
               last == appended[Len(appended)]
           IN  /\ (nRuns' = nRuns + 1 /\ generationDepth = "fast") =>
                     /\ gen'.pc = "fast"
                     /\ log'.issued = [k \in Kinds |-> IF k = "fast" THEN 1 ELSE 0]
                     /\ ~showSearchConfirmation'
               /\ (gen.pc = "fast" /\ log'.outcome = "answered") =>
                     /\ \A k \in Kinds \ {"memory", "suggest"} :
                            log'.issued[k] = (IF k = "fast" THEN 1 ELSE 0)
                     /\ Len(appended) = Len(previous) + 1
                     /\ last.role = "model"
                     /\ ~last.isError
                     /\ last.generationDetails = <<>>
               /\ (gen.pc \in {"synth", "critique", "resynth"} /\ log'.outcome = "answered") =>
                     /\ gen.generationDepth \in {"balanced", "deep"}
                     /\ Len(appended) = Len(previous) + 1
                     /\ last.generationDetails # <<>>
               /\ (log.outcome = "running" /\ log'.outcome = "failed") =>
                     last.generationDetails = <<>>
         ]_vars

\* a fast run in web mode with self-correction on ended with its answer
C21_Witness ==
    /\ gen.pc = "answered"
    /\ log.issued["fast"] = 1
    /\ researchMode = "web"
    /\ isSelfCorrectionEnabled
    /\ uiSteps = 0

----------------------------------------------------------------------------
(* The long-term memory list on its own: the saved list the init effect     *)
(* loads, then extractions (generateAndStoreMemory) and the memory modal's  *)
(* add, delete and clear-all, in any order                                  *)

\* operations on the memory list in one behaviour
MaxMemorySteps == 3

SavedLetters ==
    << "a", "b", "c", "d", "e", "f", "g", "h", "i", "j",
       "k", "l", "m", "n", "o", "p", "q", "r", "s", "t" >>

\* the k-th saved memory: twelve characters
SavedMemory(k) ==
    << "m", "e", "m", "o", "r", "y", " ", "n", "o", ".", " ", SavedLetters[k] >>

\* lists the init effect can load from storage: none, 19 or 20 distinct entries
SavedLists ==
    { <<>>,
      [k \in 1..(MAX_MEMORIES - 1) |-> SavedMemory(k)],
      [k \in 1..MAX_MEMORIES |-> SavedMemory(k)] }

\* answers of the extraction call: those of MemoryTexts, a text already
\* saved (with a newline after it), and a blank
ExtractedTexts == MemoryTexts \cup { SavedMemory(3) \o << "\n" >>, << " " >> }

\* texts typed into the modal's textarea
TypedMemories ==
    { << "l", "i", "k", "e", "s", " ", "r", "u", "s", "t", "!" >>,
      << " " >> \o SavedMemory(3),
      << "x" >>,
      << " " >> }

InitMemory ==
    /\ conversations = << [id |-> 1, title |-> NEW_TITLE, messages |-> <<>>] >>
    /\ currentConversationId = 1
    /\ input = <<>>
    /\ isLoading = FALSE
    /\ loadingTasks = <<>>
    /\ researchMode = "offline"
    /\ generationDepth = "fast"
    /\ isSelfCorrectionEnabled = TRUE
    /\ isLongTermMemoryEnabled = TRUE
    /\ longTermMemories \in SavedLists
    /\ proactiveSuggestions = <<>>
    /\ showSettings = FALSE
    /\ showSearchConfirmation = FALSE
    /\ searchConfirmationData = <<>>
    /\ submitCtx = idleSubmit
    /\ gen = idleGen
    /\ inflight = {}
    /\ log = [newLog(0, <<>>) EXCEPT !.outcome = "none"]
    /\ nRuns = 0
    /\ uiSteps = 0

memoryUnchanged ==
    UNCHANGED <<conversations, currentConversationId, input, isLoading, loadingTasks,
                researchMode, generationDepth, isSelfCorrectionEnabled,
                isLongTermMemoryEnabled, proactiveSuggestions, showSettings,
                showSearchConfirmation, searchConfirmationData, submitCtx, inflight,
                log, nRuns>>

\* generateAndStoreMemory after its call answered text; gen.results keeps the answer
ExtractMemory(text) ==
    /\ uiSteps < MaxMemorySteps
    /\ text \in ExtractedTexts
    /\ LET newMemory == trim(text)
       IN  longTermMemories' = IF admitted(newMemory)
                               THEN storeMemory(longTermMemories, newMemory)
                               ELSE longTermMemories
    /\ gen' = [idleGen EXCEPT !.pc = "extracted", !.results = (0 :> text)]
    /\ uiSteps' = uiSteps + 1
    /\ memoryUnchanged

\* MemoryManagementModal's handleAdd with text typed, then onAdd; gen.userInput
\* keeps the typed text
AddMemory(text) ==
    /\ uiSteps < MaxMemorySteps
    /\ text \in TypedMemories
    /\ longTermMemories' = IF trim(text) # <<>>
                           THEN << trim(text) >> \o longTermMemories
                           ELSE longTermMemories
    /\ gen' = [idleGen EXCEPT !.pc = "added", !.userInput = text]
    /\ uiSteps' = uiSteps + 1
    /\ memoryUnchanged

\* onDelete(index): index counts from 0; gen.taskIndex keeps it
DeleteMemory(index) ==
    /\ uiSteps < MaxMemorySteps
    /\ index \in 0..(Len(longTermMemories) - 1)
    /\ longTermMemories' =
           [k \in 1..(Len(longTermMemories) - 1) |->
               IF k - 1 < index THEN longTermMemories[k] ELSE longTermMemories[k + 1]]
    /\ gen' = [idleGen EXCEPT !.pc = "deleted", !.taskIndex = index]
    /\ uiSteps' = uiSteps + 1
    /\ memoryUnchanged

\* onClearAll
ClearAllMemories ==
    /\ uiSteps < MaxMemorySteps
    /\ longTermMemories' = <<>>
    /\ gen' = [idleGen EXCEPT !.pc = "cleared"]
    /\ uiSteps' = uiSteps + 1
    /\ memoryUnchanged

NextMemory ==
    \/ \E text \in ExtractedTexts : ExtractMemory(text)
    \/ \E text \in TypedMemories : AddMemory(text)
    \/ \E index \in 0..(MAX_MEMORIES + MaxMemorySteps) : DeleteMemory(index)
    \/ ClearAllMemories

MemorySpec == InitMemory /\ [][NextMemory]_vars

\* C22: an extraction whose answer, trimmed, has 10 characters or fewer leaves
\* the memory list as it was.
C22_ShortMemoryNotAdded ==
    [][ (gen'.pc = "extracted" /\ Len(trim(gen'.results[0])) <= 10) =>
            longTermMemories' = longTermMemories
      ]_vars

\* an extraction answered with ten characters (after trimming) over a list of 20
C22_Witness ==
    /\ gen.pc = "extracted"
    /\ Len(trim(gen.results[0])) = 10
    /\ Len(longTermMemories) = 20
    /\ uiSteps = 1

\* C23: an extraction whose answer, trimmed, has more than 10 characters puts
\* that text first; the entries after it are the previous entries other than
\* that text, in their previous order, cut at the tail so that the list has at
\* most 20 entries.
C23_AdmittedMemoryGoesFirst ==
    [][ LET newMemory == trim(gen'.results[0])
            isOther(m) == m # newMemory
            others == SelectSeq(longTermMemories, isOther)
        IN  (gen'.pc = "extracted" /\ Len(newMemory) > 10) =>
                /\ Len(longTermMemories') =
                       (IF Len(others) + 1 > 20 THEN 20 ELSE Len(others) + 1)
                /\ longTermMemories'[1] = newMemory
                /\ \A k \in 2..Len(longTermMemories') :
                       longTermMemories'[k] = others[k - 1]
      ]_vars

\* an extraction moved the third saved memory of a full list to the front
C23_Witness ==
    /\ gen.pc = "extracted"
    /\ uiSteps = 1
    /\ Len(longTermMemories) = 20
    /\ longTermMemories[1] = SavedMemory(3)
    /\ longTermMemories[3] = SavedMemory(2)
    /\ longTermMemories[4] = SavedMemory(4)

\* C24: the memory list never has more than 20 entries.
C24_MemoryCap == Len(longTermMemories) <= 20

\* C25: no two entries of the memory list have the same text.
C25_MemoryDistinct ==
    \A j, k \in 1..Len(longTermMemories) :
        longTermMemories[j] = longTermMemories[k] => j = k

\* C26: after a step that changes the textarea's text without submitting, and
\* after every accepted submission, the suggestion list is empty; an accepted
\* click on a suggestion (the submitted text is not the textarea's) appends
\* the suggestion as the user Message and starts the pipeline with it: the
\* proposal call of the Search Gate in web mode at a non-fast depth, else the
\* orchestrator.
C26_SuggestionsCleared ==
    [][ LET appended == messagesOf(conversations', currentConversationId)
            submitted == appended[Len(appended)]
        IN  /\ (input' # input /\ nRuns' = nRuns) => proactiveSuggestions' = <<>>
            /\ nRuns' = nRuns + 1 =>
                  /\ proactiveSuggestions' = <<>>
                  /\ submitted.role = "user"
                  /\ submitted.text # input =>
                        /\ \E k \in 1..Len(proactiveSuggestions) :
                               submitted.text = proactiveSuggestions[k]
                        /\ isLoading'
                        /\ IF researchMode = "web" /\ generationDepth # "fast"
                           THEN /\ submitCtx'.pc = "proposal"
                                /\ submitCtx'.userInput = submitted.text
                                /\ \E c \in inflight' \ inflight :
                                       c.kind = "proposal" /\ c.contents = submitted.text
                           ELSE /\ gen'.pc \in {"fast", "history"}
                                /\ gen'.run = nRuns'
                                /\ gen'.userInput = submitted.text
      ]_vars

\* a second run started by a click on a suggestion while the textarea held text
C26_Witness ==
    /\ nRuns = 2
    /\ isLoading
    /\ proactiveSuggestions = <<>>
    /\ LET current == messagesOf(conversations, currentConversationId)
       IN  /\ Len(current) = 3
           /\ current[3].role = "user"
           /\ current[3].text = << "o", "k" >>

\* C27: once the proposal call of a submission rejected or answered malformed
\* JSON, and until the next submission: one error Message and no other model
\* Message was appended since the submission, no confirmation is pending, the
\* loading state is clear, and the proposal call is the only call the
\* submission issued (no orchestrator was started for it, no enrichment).
C27_GateFailureAborts ==
    log.outcome = "gateFailed" =>
        /\ countErrors(conversations) = log.before.errors + 1
        /\ countAnswers(conversations) = log.before.answers
        /\ ~showSearchConfirmation
        /\ searchConfirmationData = <<>>
        /\ ~isLoading
        /\ \A k \in Kinds : log.issued[k] = (IF k = "proposal" THEN 1 ELSE 0)
        /\ gen.run # log.run
        /\ \A c \in inflight : c.run # log.run

\* a submission whose proposal call failed
C27_Witness ==
    /\ log.outcome = "gateFailed"
    /\ log.issued["proposal"] = 1
    /\ countErrors(conversations) = 1

\* C28: a step that ends a run or a gate in failure, and every step after it
\* until the next submission, issues no call; the settlement of a proposal,
\* memory or suggestion call issues no call; and within a run, main-path calls
\* are issued only by a step that moves the run on to a step whose kind the
\* run had not issued before (never again from within the same step).
C28_NoRetries ==
    [][ /\ log'.outcome \in {"failed", "gateFailed"} =>
              /\ inflight' \subseteq inflight
              /\ log'.issued = log.issued
        /\ (\E c \in inflight \ inflight' : c.kind \in {"proposal", "memory", "suggest"}) =>
              /\ inflight' \subseteq inflight
              /\ log'.issued = log.issued
        /\ (nRuns' = nRuns /\ \E k \in MainPathKinds : log'.issued[k] # log.issued[k]) =>
              /\ gen'.pc # gen.pc
              /\ gen'.pc \in MainPathKinds
              /\ log.issued[gen'.pc] = 0
              /\ \A k \in MainPathKinds \ {gen'.pc} : log'.issued[k] = log.issued[k]
      ]_vars

\* a run that failed in its initial fan-out, all its calls settled since
C28_Witness ==
    /\ log.outcome = "failed"
    /\ log.issued["initial"] = 2
    /\ log.issued["refine"] = 0
    /\ inflight = {}
    /\ ~isLoading

\* C29: on every step every conversation is still in the list, and its
\* messages before the step are a prefix of its messages after the step.
C29_MessagesAppendOnly ==
    [][ \A k \in 1..Len(conversations) :
            \E j \in 1..Len(conversations') :
                /\ conversations'[j].id = conversations[k].id
                /\ Len(conversations'[j].messages) >= Len(conversations[k].messages)
                /\ SubSeq(conversations'[j].messages, 1, Len(conversations[k].messages))
                       = conversations[k].messages
      ]_vars

\* a conversation renamed after a run appended its two messages
C29_Witness ==
    \E k \in 1..Len(conversations) :
        /\ conversations[k].title = << "t" >>
        /\ Len(conversations[k].messages) = 2
        /\ conversations[k].messages[1].role = "user"
        /\ conversations[k].messages[2].role = "model"

\* C30: while the loading indicator is on display for a submission whose
\* orchestrator has not started yet (proposal call in flight, or confirmation
\* pending), the stage list shows nothing of an earlier run: no stage of it is
\* active or completed.
C30_StageListOwnedByRun ==
    (isLoading /\ log.outcome = "running" /\ gen.run # log.run) =>
        \A k \in 1..Len(loadingTasks) : loadingTasks[k].status = "pending"

\* C31: the confirmation data holds at most one confirmation, and holds one
\* exactly while the modal is shown; while one is pending the loading state
\* is set, the submission's proposal call has settled and no other call of it
\* was issued, the orchestrator has not started for it, and no submission is
\* accepted; a confirmation appears only on the step in which the proposal
\* call resolves, and the step that ends it (confirm or cancel) empties the
\* data.
C31_OnePendingConfirmation ==
    /\ [](/\ Len(searchConfirmationData) <= 1
          /\ showSearchConfirmation <=> searchConfirmationData # <<>>
          /\ searchConfirmationData # <<>> =>
                /\ isLoading
                /\ log.outcome = "running"
                /\ \A k \in Kinds : log.issued[k] = (IF k = "proposal" THEN 1 ELSE 0)
                /\ \A c \in inflight : c.run # log.run
                /\ gen.run # log.run
                /\ submitCtx.pc = "idle")
    /\ [][ /\ searchConfirmationData # <<>> => nRuns' = nRuns
           /\ (searchConfirmationData = <<>> /\ searchConfirmationData' # <<>>) =>
                 \E c \in inflight \ inflight' : c.kind = "proposal" /\ c.run = log.run
           /\ (searchConfirmationData # <<>> /\ searchConfirmationData' # searchConfirmationData) =>
                 /\ searchConfirmationData' = <<>>
                 /\ ~showSearchConfirmation'
                 /\ \/ gen'.run = log.run /\ gen'.pc = "history" /\ isLoading'
                    \/ log'.outcome = "cancelled" /\ ~isLoading' /\ gen' = gen
         ]_vars

\* a confirmation is pending
C31_Witness ==
    /\ searchConfirmationData # <<>>
    /\ showSearchConfirmation
    /\ isLoading
    /\ log.issued["proposal"] = 1

\* C33: the step that issues a run's memory or suggestion call is the step
\* that ends the run with its answer: after it the answer is the last Message
\* of the run's conversation and the loading state is clear; and while calls
\* of the latest run's enrichment are outstanding nothing blocks a submission
\* (not loading, a conversation selected).
C33_EnrichmentAfterAnswer ==
    /\ [](\A c \in inflight :
            (c.kind \in {"memory", "suggest"} /\ c.run = log.run) =>
                /\ log.outcome = "answered"
                /\ ~isLoading
                /\ ~submitBlocked)
    /\ [][ (log'.run = log.run /\ \E k \in {"memory", "suggest"} : log'.issued[k] > log.issued[k]) =>
              LET previous == messagesOf(conversations, gen.currentConversationId)
                  appended == messagesOf(conversations', gen.currentConversationId)
              IN  /\ log.outcome = "running"
                  /\ log'.outcome = "answered"
                  /\ Len(appended) = Len(previous) + 1
                  /\ appended[Len(appended)].role = "model"
                  /\ ~appended[Len(appended)].isError
                  /\ ~isLoading'
                  /\ \A c \in inflight : c.kind \notin {"memory", "suggest"} \/ c.run # gen.run
         ]_vars

\* a second submission was accepted while the first run's suggestion call is outstanding
C33_Witness ==
    /\ nRuns = 2
    /\ isLoading
    /\ \E c \in inflight : c.kind = "suggest" /\ c.run = 1

----------------------------------------------------------------------------
(* The catch block's classification on its own: submissions from every      *)
(* initial setting, and the awaited call throwing every kind of value       *)

\* values an awaited call can throw: Errors with the words of their message,
\* and a value that is not an Error
ThrownValues ==
    { [isError |-> TRUE,  message |-> << "API key not valid" >>],
      [isError |-> TRUE,  message |-> << "API key not valid", "deadline", "SAFETY" >>],
      [isError |-> TRUE,  message |-> << "Deadline", "exceeded" >>],
      [isError |-> TRUE,  message |-> << "deadline", "SAFETY" >>],
      [isError |-> TRUE,  message |-> << "SAFETY" >>],
      [isError |-> TRUE,  message |-> << "boom" >>],
      [isError |-> TRUE,  message |-> <<>>],
      [isError |-> FALSE, message |-> << "API key not valid" >>],
      [isError |-> FALSE, message |-> << "SAFETY" >>] }

\* the catch block and the finally block after the awaited call c threw error;
\* gen.results keeps the thrown value
CatchThrown(c, error) ==
    /\ c \in inflight
    /\ Live(c)
    /\ c.kind \in MainPathKinds
    /\ error \in ThrownValues
    /\ conversations' =
           updateConversationMessages(conversations, gen.currentConversationId,
                                      errorMessage(friendlyMessage(error)))
    /\ setIsLoading(FALSE)
    /\ inflight' = (inflight \ {c})
                   \cup enrichmentCalls(gen.run, gen.isLongTermMemoryEnabled,
                                        catchFinalResponseText(gen.finalResponseText))
    /\ log' = [log EXCEPT !.outcome = "failed"]
    /\ gen' = [idleGen EXCEPT !.pc = "failed", !.run = gen.run, !.results = (0 :> error)]
    /\ UNCHANGED loadingTasks
    /\ appUnchanged

NextClassify ==
    \/ \E v \in InputTexts : HandleInputChange(v)
    \/ HandleSubmit
    \/ HistoryDone
    \/ \E c \in inflight : \E e \in ThrownValues : CatchThrown(c, e)

ClassifySpec == Init /\ [][NextClassify]_vars

\* C34: the error Message of a failed run carries the auth/config text when
\* the thrown value is an Error naming an invalid API key; otherwise the
\* timeout text when it is an Error naming a deadline (in any case of
\* letters); otherwise the safety text when it is an Error naming SAFETY; and
\* the generic text for every other Error and for a value that is not an Error.
C34_ErrorClassification ==
    (gen.pc = "failed" /\ 0 \in DOMAIN gen.results) =>
        LET thrown == gen.results[0]
            names(word) == \E i \in 1..Len(thrown.message) : thrown.message[i] = word
            current == messagesOf(conversations, currentConversationId)
            expected ==
                IF thrown.isError /\ names("API key not valid")
                THEN << "Ha um problema com a configuracao da API." >>
                ELSE IF thrown.isError /\ (names("deadline") \/ names("Deadline"))
                THEN << "A solicitacao demorou muito e expirou." >>
                ELSE IF thrown.isError /\ names("SAFETY")
                THEN << "A resposta foi bloqueada devido as configuracoes de seguranca." >>
                ELSE << "Desculpe, algo deu errado ao gerar a resposta." >>
        IN  /\ current # <<>>
            /\ current[Len(current)].role = "model"
            /\ current[Len(current)].isError
            /\ current[Len(current)].text = expected

\* an Error naming the API key, a deadline and SAFETY got the auth/config text
C34_Witness ==
    /\ gen.pc = "failed"
    /\ 0 \in DOMAIN gen.results
    /\ gen.results[0] =
           [isError |-> TRUE, message |-> << "API key not valid", "deadline", "SAFETY" >>]
    /\ LET current == messagesOf(conversations, currentConversationId)
       IN  current[Len(current)].text = API_MESSAGE

\* C35: the model Message of a run is appended to the conversation that holds
\* the run's user Message: in every conversation every model Message comes
\* right after a user Message.
C35_ReplyInSameConversation ==
    \A k \in 1..Len(conversations) :
        \A j \in 1..Len(conversations[k].messages) :
            conversations[k].messages[j].role = "model" =>
                /\ j > 1
                /\ conversations[k].messages[j - 1].role = "user"

\* C36: whenever the suggestion list is not empty, the latest submission was
\* a run that ended with its answer, nothing is loading, the textarea holds no
\* text typed since, and the selected conversation ends with that answer.
C36_SuggestionsAreFresh ==
    proactiveSuggestions # <<>> =>
        LET current == messagesOf(conversations, currentConversationId)
        IN  /\ log.outcome = "answered"
            /\ ~isLoading
            /\ input = <<>>
            /\ current # <<>>
            /\ current[Len(current)].role = "model"
            /\ ~current[Len(current)].isError

\* C37: the main-path calls in flight all belong to one run, and once a run
\* has ended (answer or error Message appended) none of its main-path calls
\* is in flight.
C37_NoCallOutlivesRun ==
    /\ \A c, d \in inflight :
           (c.kind \in MainPathKinds /\ d.kind \in MainPathKinds) => c.run = d.run
    /\ log.outcome \in {"answered", "failed"} =>
           \A c \in inflight : c.kind \in MainPathKinds => c.run # log.run

\* C38: during a balanced or deep run the stage index is inside the run's
\* stage list, and while a call the run awaits is in flight the stage at that
\* index is active and is the stage named for the call's kind: search under
\* the search stage, initial drafts under brainstorming, refinements under
\* refining, synthesis under synthesizing, critique under the review stage.
C38_StageNamedForCall ==
    LET stageOf(kind) ==
            CASE kind = "search"   -> "Pesquisando na web..."
              [] kind = "initial"  -> "Brainstorming..."
              [] kind = "refine"   -> "Refinando rascunhos..."
              [] kind = "synth"    -> "Sintetizando resposta..."
              [] kind = "critique" -> "Revisao critica..."
    IN  /\ gen.pc \in {"history", "search", "initial", "refine", "synth", "critique", "resynth"} =>
               gen.taskIndex + 1 \in 1..Len(loadingTasks)
        /\ \A c \in inflight :
               (c.run = gen.run /\ gen.pc = c.kind
                  /\ c.kind \in {"search", "initial", "refine", "synth", "critique"}) =>
                   /\ gen.taskIndex + 1 \in 1..Len(loadingTasks)
                   /\ loadingTasks[gen.taskIndex + 1].status = "active"
                   /\ loadingTasks[gen.taskIndex + 1].name = stageOf(c.kind)

\* a critique call in flight in a web-mode run: the sixth stage is the active one
C38_Witness ==
    /\ gen.pc = "critique"
    /\ gen.researchMode = "web"
    /\ gen.taskIndex = 5
    /\ \E c \in inflight : c.kind = "critique" /\ c.run = gen.run

\* C39: a submission is followed by at most one model message: since the
\* latest submission at most one model message was appended, whether an answer
\* or an error and never one of each, a step appends at most one and only
\* for a run that has not appended yet, and no conversation holds two model
\* messages in a row.
C39_AtMostOneReply ==
    /\ [](/\ countAnswers(conversations) + countErrors(conversations)
                 <= log.before.answers + log.before.errors + 1
          /\ log.outcome \in {"running", "none"} =>
                 countAnswers(conversations) + countErrors(conversations)
                     = log.before.answers + log.before.errors
          /\ \A k \in 1..Len(conversations) :
                 \A j \in 1..(Len(conversations[k].messages) - 1) :
                     conversations[k].messages[j].role = "model" =>
                         conversations[k].messages[j + 1].role = "user")
    /\ [][ countAnswers(conversations') + countErrors(conversations')
               > countAnswers(conversations) + countErrors(conversations) =>
               /\ countAnswers(conversations') + countErrors(conversations')
                      = countAnswers(conversations) + countErrors(conversations) + 1
               /\ log.outcome = "running"
               /\ log'.outcome \in {"answered", "failed", "gateFailed"}
               /\ log'.run = log.run ]_vars

\* a run whose fan-out failed: its error message is the only reply, and a
\* sibling call of the failed fan-out is still in flight
C39_Witness ==
    /\ log.outcome = "failed"
    /\ countErrors(conversations) = log.before.errors + 1
    /\ countAnswers(conversations) = log.before.answers
    /\ \E c \in inflight : c.kind = "initial" /\ c.run = log.run

----------------------------------------------------------------------------
(* The app restored from storage, with the memory modal's operations *)

\* texts typed into the memory modal's textarea: a note, and a blank
ModalTexts == { << "x" >>, << " " >> }

\* the state after the init effect loaded a saved memory and the settings
InitRestored ==
    /\ conversations = << [id |-> 1, title |-> NEW_TITLE, messages |-> <<>>] >>
    /\ currentConversationId = 1
    /\ input = <<>>
    /\ isLoading = FALSE
    /\ loadingTasks = <<>>
    /\ researchMode \in {"offline", "web"}
    /\ generationDepth \in {"fast", "balanced"}
    /\ isSelfCorrectionEnabled \in BOOLEAN
    /\ isLongTermMemoryEnabled \in BOOLEAN
    /\ longTermMemories = << SavedMemory(1) >>
    /\ proactiveSuggestions = <<>>
    /\ showSettings = TRUE
    /\ showSearchConfirmation = FALSE
    /\ searchConfirmationData = <<>>
    /\ submitCtx = idleSubmit
    /\ gen = idleGen
    /\ inflight = {}
    /\ log = [newLog(0, <<>>) EXCEPT !.outcome = "none"]
    /\ nRuns = 0
    /\ uiSteps = 0

\* what the memory modal's operations leave alone
modalUnchanged ==
    UNCHANGED <<conversations, currentConversationId, input, isLoading, loadingTasks,
                researchMode, generationDepth, isSelfCorrectionEnabled,
                isLongTermMemoryEnabled, proactiveSuggestions, showSettings,
                showSearchConfirmation, searchConfirmationData, submitCtx, gen,
                inflight, log, nRuns>>

\* onAdd: setLongTermMemories(prev => [memory, ...prev])
onAdd(prev, memory) == << memory >> \o prev

\* onDelete: setLongTermMemories(prev => prev.filter((_, i) => i !== index))
onDelete(prev, index) ==
    [k \in 1..(Len(prev) - 1) |-> IF k - 1 < index THEN prev[k] ELSE prev[k + 1]]

\* the modal's handleAdd with text typed in its textarea
HandleAddMemory(text) ==
    /\ nRuns + uiSteps < MaxUserActions
    /\ text \in ModalTexts
    /\ longTermMemories' = IF trim(text) # <<>>
                           THEN onAdd(longTermMemories, trim(text))
                           ELSE longTermMemories
    /\ uiSteps' = uiSteps + 1
    /\ modalUnchanged

\* the delete button of the entry at index (counted from 0)
HandleDeleteMemory(index) ==
    /\ nRuns + uiSteps < MaxUserActions
    /\ index \in 0..(Len(longTermMemories) - 1)
    /\ longTermMemories' = onDelete(longTermMemories, index)
    /\ uiSteps' = uiSteps + 1
    /\ modalUnchanged

\* the clear-all button
HandleClearAllMemories ==
    /\ nRuns + uiSteps < MaxUserActions
    /\ longTermMemories' = <<>>
    /\ uiSteps' = uiSteps + 1
    /\ modalUnchanged

NextRestored ==
    \/ Next
    \/ \E text \in ModalTexts : HandleAddMemory(text)
    \/ \E index \in 0..MaxUserActions : HandleDeleteMemory(index)
    \/ HandleClearAllMemories

RestoredSpec == InitRestored /\ [][NextRestored]_vars

\* C40: a run that executes with long-term memory switched off sends the
\* user's input without a memory block before it, issues no memory-extraction
\* call and changes the memory list in none of its steps (the list changes
\* only by the modal's operations and by extraction calls of other runs); when
\* it ends with a non-empty answer its suggestion call is issued all the same.
C40_MemoryOffRun ==
    /\ [](( /\ gen.pc \notin {"idle", "answered", "failed"}
            /\ ~gen.isLongTermMemoryEnabled ) =>
              /\ gen.finalInputWithContext = gen.userInput
              /\ log.issued["memory"] = 0
              /\ \A c \in inflight :
                     /\ (c.run = gen.run) => c.kind # "memory"
                     /\ (c.run = gen.run /\ c.kind = "fast") => c.contents = gen.userInput)
    /\ [][ ( /\ gen.pc \notin {"idle", "answered", "failed"}
             /\ ~gen.isLongTermMemoryEnabled ) =>
               /\ log'.run = log.run => log'.issued["memory"] = 0
               /\ \A c \in inflight' \ inflight : c.kind # "memory"
               /\ longTermMemories' # longTermMemories =>
                      \/ uiSteps' = uiSteps + 1
                      \/ \E c \in inflight \ inflight' : c.kind = "memory" /\ c.run # gen.run
               /\ ( /\ log'.outcome = "answered"
                    /\ log.outcome = "running"
                    /\ \E p \in Positions(conversations') \ Positions(conversations) :
                           messageAt(conversations', p).text # <<>> ) =>
                      /\ log'.issued["suggest"] = 1
                      /\ \E c \in inflight' \ inflight : c.kind = "suggest" /\ c.run = gen.run
           ]_vars

\* a run over a saved memory with the setting off has answered: no extraction
\* call was issued, the list is as it was, and the suggestion call is in flight
C40_Witness ==
    /\ log.outcome = "answered"
    /\ nRuns = 1
    /\ uiSteps = 0
    /\ ~isLongTermMemoryEnabled
    /\ longTermMemories = << SavedMemory(1) >>
    /\ log.issued["memory"] = 0
    /\ log.issued["suggest"] = 1
    /\ \E c \in inflight : c.kind = "suggest" /\ c.run = log.run

\* C32: no step loses an update of the conversation list or of the memory
\* list. Every conversation present before a step is present after it with
\* its messages kept as a prefix, and its title changes only in a submission
\* or a rename, so a message appended by a run keeps every conversation
\* created or renamed meanwhile. A settled extraction puts its memory before
\* every other entry the list holds at that moment, kept in order, and a
\* modal operation prepends to, removes one entry from, or empties the list as
\* it is at that moment.
C32_NoLostUpdate ==
    [][ /\ \A k \in 1..Len(conversations) :
               \E k2 \in 1..Len(conversations') :
                   /\ conversations'[k2].id = conversations[k].id
                   /\ Len(conversations'[k2].messages) >= Len(conversations[k].messages)
                   /\ SubSeq(conversations'[k2].messages, 1, Len(conversations[k].messages))
                          = conversations[k].messages
                   /\ conversations'[k2].title # conversations[k].title =>
                          (nRuns' = nRuns + 1 \/ uiSteps' = uiSteps + 1)
        /\ longTermMemories' # longTermMemories =>
               \/ /\ uiSteps' = uiSteps + 1
                  /\ \/ longTermMemories' = <<>>
                     \/ /\ longTermMemories' # <<>>
                        /\ Tail(longTermMemories') = longTermMemories
                     \/ \E index \in 1..Len(longTermMemories) :
                            longTermMemories' =
                                SubSeq(longTermMemories, 1, index - 1)
                                \o SubSeq(longTermMemories, index + 1, Len(longTermMemories))
               \/ /\ \E c \in inflight \ inflight' : c.kind = "memory"
                  /\ longTermMemories' # <<>>
                  /\ LET other(m) == m # longTermMemories'[1]
                     IN  Tail(longTermMemories') = SelectSeq(longTermMemories, other)
      ]_vars

\* a note was added in the modal and an extraction was admitted: the
\* extracted memory is first, the note and the saved memory follow it
C32_Witness ==
    /\ nRuns = 1
    /\ uiSteps = 1
    /\ Len(longTermMemories) = 3
    /\ longTermMemories[1] \in { trim(t) : t \in MemoryTexts }
    /\ longTermMemories[2] = << "x" >>
    /\ longTermMemories[3] = SavedMemory(1)
    /\ \A c \in inflight : c.kind # "memory"

====
